---- MODULE Spec2Model ----
(***************************************************************************)
(* One HttpProtocol connection of uvicorn/protocols/http.py: the parser    *)
(* callbacks, the body channel and the reply channel, driven by a hosted   *)
(* application whose consumer tasks send response messages.                *)
(***************************************************************************)
EXTENDS Integers, Sequences, FiniteSets, TLC

\* ---------------------------------------------------------------- bounds
MaxRequests == 3
MaxHeaders == 1
MaxBodyChunks == 1
MaxSends == 3

\* ------------------------------------------------------ program constants
LOW_WATER_LIMIT == 16384
HIGH_WATER_LIMIT == 65536
MAX_PIPELINED_REQUESTS == 20

None == 0


\* ------------------------------------------------------------ byte strings
\* A byte string is a sequence of tokens; every body byte is one token.
CRLF == "\r\n"
Hello == <<"H", "e", "l", "l", "o">>
Ab == <<"a", "b">>
Cd == <<"c", "d">>

HexDigits == <<"0", "1", "2", "3", "4", "5", "6", "7", "8", "9", "a", "b", "c", "d", "e", "f">>

RECURSIVE Hex(_)
Hex(n) == IF n < 16 THEN <<HexDigits[n + 1]>>
          ELSE Hex(n \div 16) \o <<HexDigits[(n % 16) + 1]>>

Str(n) == ToString(n)

SERVER_HEADER == <<"server", ": ", "uvicorn", CRLF>>
DATE_HEADER == <<"date", ": ", "now", CRLF>>

Lower(s) ==
  CASE s = "Content-Length" -> "content-length"
    [] s = "Connection" -> "connection"
    [] s = "Close" -> "close"
    [] s = "Transfer-Encoding" -> "transfer-encoding"
    [] s = "Upgrade" -> "upgrade"
    [] s = "Expect" -> "expect"
    [] s = "100-Continue" -> "100-continue"
    [] OTHER -> s

Phrase(status) ==
  CASE status = 200 -> "OK"
    [] status = 204 -> "No Content"
    [] status = 400 -> "Bad Request"
    [] status = 500 -> "Internal Server Error"
    [] status = 503 -> "Service Unavailable"
    [] OTHER -> ""

HeaderLine(name, value) == <<name, ": ", value, CRLF>>

get_status_line(status) == <<"HTTP/1.1", Str(status), Phrase(status), CRLF>>

\* STATUS_LINE holds the codes of range(100, 600); any other is a KeyError.
StatusKnown(status) == status \in 100..599

\* ------------------------------------------------------ application messages
\* message.get('status'), .get('headers', []), .get('content', b''),
\* .get('more_content', False): an absent key takes the default.  A start
\* message carries the status and the headers, a body message the body and
\* the more flag; one message may also carry all four.
Message(status, headers, content, more_content) ==
  [status |-> status, headers |-> headers, content |-> content,
   more_content |-> more_content]

ResponseStart(status, headers) == Message(status, headers, <<>>, FALSE)
ResponseBody(body, more_body) == Message(None, <<>>, body, more_body)

AppHello == <<ResponseStart(200, <<>>), ResponseBody(Hello, FALSE)>>
AppStream == <<ResponseStart(200, <<>>), ResponseBody(Ab, TRUE), ResponseBody(Cd, FALSE)>>
AppChunkedHeader ==
  <<ResponseStart(200, <<<<"transfer-encoding", "chunked">>>>), ResponseBody(Hello, FALSE)>>
AppOversized ==
  <<ResponseStart(200, <<<<"Content-Length", "2">>>>), ResponseBody(Hello, FALSE)>>
AppUndersized ==
  <<ResponseStart(200, <<<<"content-length", "7">>>>), ResponseBody(Ab, FALSE)>>
AppDuplicateStart == <<ResponseStart(200, <<>>), ResponseStart(200, <<>>)>>
AppAfterComplete ==
  <<ResponseStart(200, <<>>), ResponseBody(<<>>, FALSE), ResponseBody(<<>>, FALSE)>>
AppMissingStart == <<ResponseBody(<<>>, FALSE)>>
AppNoResponse == <<>>
AppSingle == <<Message(200, <<>>, Hello, FALSE)>>
AppSingleStream == <<Message(200, <<>>, Ab, TRUE), ResponseBody(Cd, FALSE)>>
AppSingleChunked ==
  <<Message(200, <<<<"transfer-encoding", "chunked">>>>, Hello, FALSE)>>
AppSingleOversized == <<Message(200, <<<<"Content-Length", "2">>>>, Hello, FALSE)>>
AppSingleThenBody == <<Message(200, <<>>, Hello, FALSE), ResponseBody(Cd, FALSE)>>
AppClose == <<Message(204, <<<<"Connection", "Close">>>>, <<>>, FALSE)>>

Apps == {AppHello, AppStream, AppChunkedHeader, AppOversized, AppUndersized,
         AppDuplicateStart, AppAfterComplete, AppMissingStart, AppNoResponse,
         AppSingle, AppSingleStream, AppSingleChunked, AppSingleOversized,
         AppSingleThenBody, AppClose}

RequestHeaders == {<<"host", "example.org">>}
BodyChunks == {<<"x">>}

\* ------------------------------------------------------------------ state
VARIABLES
  app,                  \* the consumer: the messages each of its tasks sends
  transport,            \* the transport: "open", "closed" by the server, or
                        \* "lost"; protocol.transport is None unless it is open
  wire,                 \* the writes made on the transport, in order
  read_paused, write_paused, buffer_size,
  active_request,       \* request id, or None
  pipeline_queue,       \* request ids
  total_requests,       \* state['total_requests']
  use_chunked_encoding, should_keep_alive,   \* the connection's ReplyChannel
  parser,               \* position of the request parser
  feeding,              \* inside a data_received call
  headers,              \* self.headers of the request being parsed
  upgrade,
  channels,             \* per request: its body channel
  task,                 \* per request: its consumer task
  high_water_limit, low_water_limit, max_pipelined_requests,
  request,              \* per request, what the client sent: whether its
                        \* version and connection header ask for keep-alive,
                        \* its body chunks so far, an expect: 100-continue
  received,             \* observed; per request: what receive() returned
  fed,                  \* observed; body bytes of the data_received call
  lifespan,             \* config.lifespan
  startup_event, shutdown_event, receive_queue, error_occured, should_exit,
  lifespan_app,         \* the steps the application takes on a lifespan scope
  pc,                   \* positions of startup(), shutdown() and main()
  config,               \* the Config object: the settings the server reads
  server,               \* the Server object, its listener and its Lifespan
  server_state,         \* ServerState: total_requests, connections, tasks
  protocols,            \* per accepted connection: its protocol object
  websocket,            \* the WebSocketProtocol of an upgraded connection
  idle_time,            \* seconds since the connection last saw activity
  cors,                 \* a request on its way through CORSMiddleware
  session               \* a PostgresSession, its pool and its callers

vars == <<app, transport, wire, read_paused, write_paused, buffer_size,
          active_request, pipeline_queue, total_requests,
          use_chunked_encoding, should_keep_alive, parser, feeding, headers,
          upgrade, channels, task,
          high_water_limit, low_water_limit, max_pipelined_requests,
          request, received, fed,
          lifespan, startup_event, shutdown_event, receive_queue,
          error_occured, should_exit, lifespan_app, pc,
          config, server, server_state, protocols, websocket, idle_time,
          cors, session>>

\* What no callback of the connection assigns: the limits set in __init__,
\* the LifespanOn object, the server, and the protocol the connection is
\* handed to on an upgrade.
lifespan_vars == <<lifespan, startup_event, shutdown_event, receive_queue,
                   error_occured, should_exit, lifespan_app, pc>>
server_vars == <<config, server, server_state, protocols>>
starlette_vars == <<cors, session>>
fixed == <<high_water_limit, low_water_limit, max_pipelined_requests,
           lifespan_vars, server_vars, websocket, starlette_vars>>

Requests == 1..MaxRequests

\* The connections of the pool and the tasks that share one session.
PoolSize == 2
MaxCallers == 2
MaxCalls == 2
PoolConnections == 1..PoolSize
Callers == 1..MaxCallers

NoChannels == [body |-> FALSE, queue |-> <<>>, released |-> FALSE]
\* st: the task's position; pc: the messages it has passed to send();
\* complete: one of them ran the completion of lines 161-176.
NoTask == [st |-> "none", pc |-> 0, complete |-> FALSE]
NoRequest == [keep_alive |-> TRUE, body |-> <<>>, expect |-> FALSE]

\* HttpProtocol.__init__ with the limits it sets, then connection_made.
DefaultLimits ==
  /\ high_water_limit = HIGH_WATER_LIMIT
  /\ low_water_limit = LOW_WATER_LIMIT
  /\ max_pipelined_requests = MAX_PIPELINED_REQUESTS

\* No LifespanOn object takes part in the run of a connection.
NoLifespan ==
  /\ lifespan = "off"
  /\ startup_event = FALSE
  /\ shutdown_event = FALSE
  /\ receive_queue = <<>>
  /\ error_occured = FALSE
  /\ should_exit = FALSE
  /\ lifespan_app = <<>>
  /\ pc = [startup |-> "none", shutdown |-> "none", main |-> "none", app |-> 0]

\* Config.__init__ with its defaults, and disable_lifespan as main() passes
\* it; None stands for a limit that is not configured.
DefaultConfig ==
  [limit_concurrency |-> None, limit_max_requests |-> None,
   timeout_keep_alive |-> 5, disable_lifespan |-> FALSE]

\* The Lifespan object the server makes in run(), before its handshake.
NoHandshake(is_enabled) ==
  [is_enabled |-> is_enabled, phase |-> "Idle", error_occured |-> FALSE]

\* Server.__init__; pc is the position of run() and of the tick() task,
\* server.server the listener, signals the exit signals received.
NewServer(pc0, is_enabled) ==
  [pc |-> pc0, should_exit |-> FALSE, force_exit |-> FALSE,
   server |-> "none", lifespan |-> NoHandshake(is_enabled), signals |-> 0]

\* ServerState.__init__.
NewServerState == [total_requests |-> 0, connections |-> {}, tasks |-> {}]

\* No server runs the connection: the protocol object is driven directly.
NoServer ==
  /\ config = DefaultConfig
  /\ server = NewServer("none", FALSE)
  /\ server_state = NewServerState
  /\ protocols = <<>>

\* A message of the websocket reply channel as message.get() reads it: a
\* key the application left out reads as None.  Python values are written
\* as text here, the close code included.
PyNone == "None"
PyTrue == "True"
PyFalse == "False"
Truthy(v) == v \notin {PyNone, PyFalse, ""}
NoMessage == [accept |-> PyNone, text |-> PyNone, bytes |-> PyNone, close |-> PyNone]

\* No WebSocketProtocol: the connection has not been upgraded.  accepted is
\* the reply channel's _accepted, frames what it passed to the websocket
\* codec's send() and close(), reader whether accept() started the reader
\* task, message and sends the last argument and the number of calls of
\* ReplyChannel.send.  inbound holds what the codec has received and recv()
\* has not returned yet, close_code the code of the client's close, arrived
\* the number of frames the client sent, order the reader's counter, and
\* consumed the messages the consumer was started with, in the order of
\* the create_task calls.
NoWebSocket ==
  [st |-> "none", accepted |-> FALSE, frames |-> <<>>, accept_headers |-> <<>>,
   reader |-> FALSE, message |-> NoMessage, sends |-> 0,
   inbound |-> <<>>, close_code |-> PyNone, arrived |-> 0, order |-> 1,
   consumed |-> <<>>]

\* No request has reached the middleware: sent holds the messages passed
\* to the server's send, pc counts the messages the wrapped application
\* has sent.
NoCall ==
  [st |-> "none", allow_origins |-> <<>>, simple_headers |-> <<>>,
   origin |-> "", inner |-> <<>>, pc |-> 0, sent |-> <<>>]

\* PostgresSession.__init__ on a pool none of whose connections is taken.
\* taken and released count, per connection, the pool's acquire and
\* release calls; task is, per caller, where it is between its calls and
\* the connection it was handed.
NewSession ==
  [conn |-> None, connection_holders |-> 0,
   free |-> PoolConnections,
   taken |-> [c \in PoolConnections |-> 0],
   released |-> [c \in PoolConnections |-> 0],
   task |-> [t \in Callers |-> [pc |-> "idle", conn |-> None, calls |-> 0]]]

ProtocolInit ==
  /\ transport = "open"
  /\ wire = <<>>
  /\ read_paused = FALSE
  /\ write_paused = FALSE
  /\ buffer_size = 0
  /\ active_request = None
  /\ pipeline_queue = <<>>
  /\ total_requests = 0
  /\ use_chunked_encoding = FALSE
  /\ should_keep_alive = TRUE
  /\ parser = [pos |-> "idle", cur |-> 0, keep_alive |-> TRUE, nbody |-> 0]
  /\ feeding = FALSE
  /\ headers = <<>>
  /\ upgrade = "none"
  /\ channels = [r \in Requests |-> NoChannels]
  /\ task = [r \in Requests |-> NoTask]
  /\ request = [r \in Requests |-> NoRequest]
  /\ received = [r \in Requests |-> <<>>]
  /\ fed = 0
  /\ websocket = NoWebSocket
  /\ idle_time = 0
  /\ cors = NoCall
  /\ session = NewSession

Init ==
  /\ app \in Apps
  /\ ProtocolInit
  /\ DefaultLimits
  /\ NoLifespan
  /\ NoServer


\* ------------------------------------------------------------ flow control
\* check_pause_reading / check_resume_reading, as functions of the fields
\* they read; each returns the new value of read_paused.
\* A check that never pauses.
never_pause_reading(tr, rp, bs, q) == rp

check_pause_reading(tr, rp, bs, q) ==
  IF tr # "open" \/ rp THEN rp
  ELSE IF bs > high_water_limit \/ Len(q) >= max_pipelined_requests THEN TRUE
  ELSE rp

\* A check that resumes on the buffer alone.
resume_reading_on_buffer(tr, rp, bs, q) ==
  IF tr # "open" \/ ~rp THEN rp
  ELSE IF bs < low_water_limit THEN FALSE
  ELSE rp

check_resume_reading(tr, rp, bs, q) ==
  IF tr # "open" \/ ~rp THEN rp
  ELSE IF bs < low_water_limit /\ Len(q) < max_pipelined_requests THEN FALSE
  ELSE rp

RECURSIVE QueuedBytes(_)
QueuedBytes(q) ==
  IF q = <<>> THEN 0 ELSE Len(Head(q).content) + QueuedBytes(Tail(q))

\* ------------------------------------------------------------ the transport
Write(by, data) == [by |-> by, data |-> data]

\* The transport calls pause_writing when written bytes fill its buffer.
pause_writing ==
  /\ ~feeding /\ transport = "open" /\ ~write_paused /\ wire # <<>>
  /\ write_paused' = TRUE
  /\ UNCHANGED request
  /\ UNCHANGED <<fixed, app, transport, wire, read_paused, buffer_size, active_request,
                 pipeline_queue, total_requests, use_chunked_encoding,
                 should_keep_alive, parser, feeding, headers, upgrade, channels, task>>

resume_writing ==
  /\ ~feeding /\ write_paused
  /\ write_paused' = FALSE
  /\ UNCHANGED request
  /\ UNCHANGED <<fixed, app, transport, wire, read_paused, buffer_size, active_request,
                 pipeline_queue, total_requests, use_chunked_encoding,
                 should_keep_alive, parser, feeding, headers, upgrade, channels, task>>

connection_lost ==
  /\ ~feeding /\ transport = "open"
  /\ transport' = "lost"
  /\ UNCHANGED request
  /\ UNCHANGED <<fixed, app, wire, read_paused, write_paused, buffer_size, active_request,
                 pipeline_queue, total_requests, use_chunked_encoding,
                 should_keep_alive, parser, feeding, headers, upgrade, channels, task>>

\* data_received: the transport delivers bytes only while reading is not
\* paused; the parser then runs its callbacks inside the call.
data_received ==
  /\ ~feeding /\ transport = "open" /\ ~read_paused
  /\ feeding' = TRUE
  /\ UNCHANGED request
  /\ UNCHANGED <<fixed, app, transport, wire, read_paused, write_paused, buffer_size,
                 active_request, pipeline_queue, total_requests,
                 use_chunked_encoding, should_keep_alive, parser,
                 headers, upgrade, channels, task>>

data_received_return ==
  /\ feeding
  /\ feeding' = FALSE
  /\ UNCHANGED request
  /\ UNCHANGED <<fixed, app, transport, wire, read_paused, write_paused, buffer_size,
                 active_request, pipeline_queue, total_requests,
                 use_chunked_encoding, should_keep_alive, parser,
                 headers, upgrade, channels, task>>

\* ------------------------------------------------------- parser callbacks
\* keep_alive is what request_parser.should_keep_alive() answers from here
\* on: the parser derives it from the request being parsed.
on_message_begin(keep_alive) ==
  /\ feeding /\ parser.pos = "idle" /\ parser.cur < MaxRequests
  /\ parser' = [pos |-> "begun", cur |-> parser.cur + 1,
                keep_alive |-> keep_alive, nbody |-> 0]
  /\ request' = [request EXCEPT ![parser.cur + 1] =
                    [keep_alive |-> keep_alive, body |-> <<>>, expect |-> FALSE]]
  /\ channels' = [channels EXCEPT ![parser.cur + 1] = NoChannels]
  /\ headers' = <<>>
  /\ UNCHANGED <<fixed, app, transport, wire, read_paused, write_paused, buffer_size,
                 active_request, pipeline_queue, total_requests,
                 use_chunked_encoding, should_keep_alive, feeding, upgrade, task>>

on_url ==
  /\ feeding /\ parser.pos = "begun"
  /\ parser' = [parser EXCEPT !.pos = "headers"]
  /\ UNCHANGED request
  /\ UNCHANGED <<fixed, app, transport, wire, read_paused, write_paused, buffer_size,
                 active_request, pipeline_queue, total_requests,
                 use_chunked_encoding, should_keep_alive, feeding, headers,
                 upgrade, channels, task>>

\* An on_header that writes no interim response.
on_header_silent(name, value) ==
  /\ feeding /\ parser.pos = "headers"
  /\ request' = IF Lower(name) = "expect" /\ Lower(value) = "100-continue"
                THEN [request EXCEPT ![parser.cur].expect = TRUE] ELSE request
  /\ upgrade' = IF Lower(name) = "upgrade" THEN value ELSE upgrade
  /\ headers' = Append(headers, <<Lower(name), value>>)
  /\ UNCHANGED <<fixed, app, transport, wire, read_paused, write_paused,
                 buffer_size, active_request, pipeline_queue, total_requests,
                 use_chunked_encoding, should_keep_alive, parser, feeding,
                 channels, task>>

on_header(name, value) ==
  /\ feeding /\ parser.pos = "headers"
  /\ request' = IF Lower(name) = "expect" /\ Lower(value) = "100-continue"
                THEN [request EXCEPT ![parser.cur].expect = TRUE] ELSE request
  /\ upgrade' = IF Lower(name) = "upgrade" THEN value ELSE upgrade
  /\ wire' = IF Lower(name) # "upgrade" /\ Lower(name) = "expect"
                  /\ Lower(value) = "100-continue"
             THEN Append(wire, Write(0, <<"HTTP/1.1", "100", "Continue", CRLF, CRLF>>))
             ELSE wire
  /\ headers' = Append(headers, <<Lower(name), value>>)
  /\ UNCHANGED <<fixed, app, transport, read_paused, write_paused, buffer_size,
                 active_request, pipeline_queue, total_requests,
                 use_chunked_encoding, should_keep_alive, parser, feeding,
                 channels, task>>

\* The shared head of on_body and on_message_complete: start the consumer
\* task, or queue the request behind the active one.
Dispatch(r) ==
  IF active_request = None
  THEN /\ task' = [task EXCEPT ![r] = [st |-> "running", pc |-> 0,
                                             complete |-> FALSE]]
       /\ active_request' = r
       /\ pipeline_queue' = pipeline_queue
  ELSE /\ pipeline_queue' = Append(pipeline_queue, r)
       /\ UNCHANGED <<task, active_request>>

\* A _put that adds the message at the head of the queue.
PutFirst(r, message, q, rp) ==
  IF channels[r].released
  THEN /\ channels' = [channels EXCEPT ![r].body = TRUE]
       /\ buffer_size' = buffer_size
       /\ read_paused' = rp
  ELSE /\ channels' = [channels EXCEPT ![r].body = TRUE,
                                       ![r].queue = <<message>> \o @]
       /\ buffer_size' = buffer_size + Len(message.content)
       /\ read_paused' = check_pause_reading(transport, rp,
                             buffer_size + Len(message.content), q)

\* A _put that does not look at _released.
PutReleased(r, message, q, rp) ==
  /\ channels' = [channels EXCEPT ![r].body = TRUE,
                                  ![r].queue = Append(@, message)]
  /\ buffer_size' = buffer_size + Len(message.content)
  /\ read_paused' = check_pause_reading(transport, rp,
                        buffer_size + Len(message.content), q)

\* BodyChannel._put on the channel of request r, after the queue became q.
Put(r, message, q, rp) ==
  IF channels[r].released
  THEN /\ channels' = [channels EXCEPT ![r].body = TRUE]
       /\ buffer_size' = buffer_size
       /\ read_paused' = rp
  ELSE /\ channels' = [channels EXCEPT ![r].body = TRUE,
                                       ![r].queue = Append(@, message)]
       /\ buffer_size' = buffer_size + Len(message.content)
       /\ read_paused' = check_pause_reading(transport, rp,
                             buffer_size + Len(message.content), q)

on_body(body) ==
  /\ feeding /\ parser.pos \in {"headers", "body"}
  /\ request' = [request EXCEPT ![parser.cur].body = Append(@, body)]
  /\ parser' = [parser EXCEPT !.pos = "body", !.nbody = @ + 1]
  /\ LET r == parser.cur
         message == [content |-> body, more_content |-> TRUE]
     IN IF ~channels[r].body
        THEN /\ Dispatch(r)
             /\ Put(r, message, pipeline_queue',
                    IF active_request = None THEN read_paused
                    ELSE check_pause_reading(transport, read_paused, buffer_size,
                                             pipeline_queue'))
        ELSE /\ UNCHANGED <<task, active_request, pipeline_queue>>
             /\ Put(r, message, pipeline_queue, read_paused)
  /\ UNCHANGED <<fixed, app, transport, wire, write_paused, total_requests,
                 use_chunked_encoding, should_keep_alive, feeding, headers, upgrade>>

on_message_complete ==
  /\ feeding /\ parser.pos \in {"headers", "body"}
  /\ parser' = [parser EXCEPT !.pos = "idle"]
  /\ LET r == parser.cur
     IN IF upgrade # "none"
        THEN UNCHANGED <<task, active_request, pipeline_queue, channels,
                         buffer_size, read_paused>>
        ELSE IF ~channels[r].body
        THEN /\ Dispatch(r)
             /\ read_paused' = IF active_request = None THEN read_paused
                               ELSE check_pause_reading(transport, read_paused,
                                        buffer_size, pipeline_queue')
             /\ UNCHANGED <<channels, buffer_size>>
        ELSE /\ UNCHANGED <<task, active_request, pipeline_queue>>
             /\ Put(r, [content |-> <<>>, more_content |-> FALSE],
                    pipeline_queue, read_paused)
  /\ UNCHANGED request
  /\ UNCHANGED <<fixed, app, transport, wire, write_paused, total_requests,
                 use_chunked_encoding, should_keep_alive, feeding, headers, upgrade>>


\* --------------------------------------------------------- BodyChannel
\* A receive that leaves buffer_size as it is.
receive_uncounted(r) ==
  /\ ~feeding /\ task[r].st = "running"
  /\ channels[r].body /\ channels[r].queue # <<>>
  /\ channels' = [channels EXCEPT ![r].queue = Tail(@)]
  /\ UNCHANGED <<buffer_size, read_paused>>
  /\ UNCHANGED request
  /\ UNCHANGED <<fixed, app, transport, wire, write_paused, active_request,
                 pipeline_queue, total_requests, use_chunked_encoding,
                 should_keep_alive, parser, feeding, headers, upgrade, task>>

\* receive(): the consumer task of request r takes the next body message.
receive(r) ==
  /\ ~feeding /\ task[r].st = "running"
  /\ channels[r].body /\ channels[r].queue # <<>>
  /\ LET message == Head(channels[r].queue)
     IN /\ channels' = [channels EXCEPT ![r].queue = Tail(@)]
        /\ buffer_size' = buffer_size - Len(message.content)
        /\ read_paused' = check_resume_reading(transport, read_paused,
                              buffer_size - Len(message.content), pipeline_queue)
  /\ UNCHANGED request
  /\ UNCHANGED <<fixed, app, transport, wire, write_paused, active_request,
                 pipeline_queue, total_requests, use_chunked_encoding,
                 should_keep_alive, parser, feeding, headers, upgrade, task>>

\* --------------------------------------------------------- ReplyChannel
RECURSIVE HeaderLines(_)
HeaderLines(hs) ==
  IF hs = <<>> THEN <<>>
  ELSE HeaderLine(Head(hs)[1], Head(hs)[2]) \o HeaderLines(Tail(hs))

SeenContentLength(hs) ==
  \E k \in 1..Len(hs) : Lower(hs[k][1]) = "content-length"

SeenConnectionClose(hs) ==
  \E k \in 1..Len(hs) :
    /\ Lower(hs[k][1]) # "content-length"
    /\ Lower(hs[k][1]) = "connection"
    /\ Lower(hs[k][2]) = "close"

\* Lines 121-146: the response head, written in one call.
ResponseHead(m) ==
  get_status_line(m.status) \o SERVER_HEADER \o DATE_HEADER
    \o HeaderLines(m.headers)
    \o (IF SeenContentLength(m.headers) THEN <<>>
        ELSE IF m.more_content THEN HeaderLine("transfer-encoding", "chunked")
        ELSE HeaderLine("content-length", Str(Len(m.content))))
    \o <<CRLF>>

ChunkedAfter(m) ==
  IF m.status # None /\ ~SeenContentLength(m.headers) /\ m.more_content
  THEN TRUE ELSE use_chunked_encoding

KeepAliveAfter(m) ==
  IF m.status # None /\ SeenConnectionClose(m.headers)
  THEN FALSE ELSE should_keep_alive

\* Lines 148-154: the body writes.
ContentWrites(by, m) ==
  IF m.content = <<>> THEN <<>>
  ELSE IF ChunkedAfter(m)
       THEN <<Write(by, Hex(Len(m.content)) \o <<CRLF>>), Write(by, m.content),
              Write(by, <<CRLF>>)>>
       ELSE <<Write(by, m.content)>>

\* Lines 156-159: the chunked terminator.
FinalWrites(by, m) ==
  IF ~m.more_content /\ ChunkedAfter(m)
  THEN <<Write(by, <<"0", CRLF, CRLF>>)>> ELSE <<>>

\* Lines 161-176: what a message with more_content false does to the
\* connection, whichever task sent it.
Complete(r, m) ==
  LET ar == active_request
      has_body == ar # None /\ channels[ar].body
      dropped == IF has_body THEN QueuedBytes(channels[ar].queue) ELSE 0
      bs == buffer_size - dropped
      rp == IF dropped # 0
            THEN check_resume_reading(transport, read_paused, bs, pipeline_queue)
            ELSE read_paused
      close == ~KeepAliveAfter(m) \/ ~parser.keep_alive
  IN /\ channels' = IF has_body
                    THEN [channels EXCEPT ![ar].queue = <<>>, ![ar].released = TRUE]
                    ELSE channels
     /\ buffer_size' = bs
     /\ total_requests' = total_requests + 1
     /\ IF close
        THEN /\ transport' = "closed"
             /\ read_paused' = rp
             /\ task' = [task EXCEPT ![r].st = "running", ![r].pc = @ + 1,
                                      ![r].complete = TRUE]
             /\ UNCHANGED <<active_request, pipeline_queue>>
        ELSE IF pipeline_queue # <<>>
        THEN /\ active_request' = Head(pipeline_queue)
             /\ pipeline_queue' = Tail(pipeline_queue)
             /\ task' = [task EXCEPT ![r].st = "running", ![r].pc = @ + 1,
                           ![r].complete = TRUE,
                           ![Head(pipeline_queue)] =
                               [st |-> "running", pc |-> 0, complete |-> FALSE]]
             /\ read_paused' = check_resume_reading(transport, rp, bs,
                                                    Tail(pipeline_queue))
             /\ UNCHANGED transport
        ELSE /\ active_request' = None
             /\ read_paused' = rp
             /\ task' = [task EXCEPT ![r].st = "running", ![r].pc = @ + 1,
                                      ![r].complete = TRUE]
             /\ UNCHANGED <<transport, pipeline_queue>>

\* Lines 116-176: send() from the point where it holds a transport.
SendWrites(r, m) ==
  IF m.status # None /\ ~StatusKnown(m.status)
  THEN /\ task' = [task EXCEPT ![r].st = "done"]
       /\ UNCHANGED <<transport, wire, read_paused, buffer_size, active_request,
                      pipeline_queue, total_requests, use_chunked_encoding,
                      should_keep_alive, channels>>
  ELSE /\ wire' = wire
                   \o (IF m.status # None THEN <<Write(r, ResponseHead(m))>> ELSE <<>>)
                   \o ContentWrites(r, m) \o FinalWrites(r, m)
       /\ should_keep_alive' = KeepAliveAfter(m)
       /\ use_chunked_encoding' = IF m.more_content THEN ChunkedAfter(m) ELSE FALSE
       /\ IF m.more_content
          THEN /\ task' = [task EXCEPT ![r].st = "running", ![r].pc = @ + 1]
               /\ UNCHANGED <<transport, read_paused, buffer_size, active_request,
                              pipeline_queue, total_requests, channels>>
          ELSE Complete(r, m)

RECURSIVE SendCalls(_)
SendCalls(n) ==
  IF n = 0 THEN 0
  ELSE task[n].pc + (IF task[n].st = "draining" THEN 1 ELSE 0) + SendCalls(n - 1)

\* A send that does not look at write_paused.
send_unpaused(r) ==
  /\ ~feeding /\ task[r].st = "running" /\ task[r].pc < Len(app)
  /\ LET m == app[task[r].pc + 1]
     IN IF transport # "open"
        THEN /\ task' = [task EXCEPT ![r].pc = @ + 1]
             /\ UNCHANGED <<transport, wire, read_paused, buffer_size,
                            active_request, pipeline_queue, total_requests,
                            use_chunked_encoding, should_keep_alive, channels>>
        ELSE SendWrites(r, m)
  /\ UNCHANGED request
  /\ UNCHANGED <<fixed, app, write_paused, parser, feeding, headers, upgrade>>

\* send(message) by the consumer task of request r: lines 106-114, then the
\* writes unless it has to await drain().
send(r) ==
  /\ ~feeding /\ task[r].st = "running" /\ task[r].pc < Len(app)
  /\ LET m == app[task[r].pc + 1]
     IN IF transport # "open"
        THEN /\ task' = [task EXCEPT ![r].pc = @ + 1]
             /\ UNCHANGED <<transport, wire, read_paused, buffer_size,
                            active_request, pipeline_queue, total_requests,
                            use_chunked_encoding, should_keep_alive, channels>>
        ELSE IF write_paused
        THEN /\ task' = [task EXCEPT ![r].st = "draining"]
             /\ UNCHANGED <<transport, wire, read_paused, buffer_size,
                            active_request, pipeline_queue, total_requests,
                            use_chunked_encoding, should_keep_alive, channels>>
        ELSE SendWrites(r, m)
  /\ UNCHANGED request
  /\ UNCHANGED <<fixed, app, write_paused, parser, feeding, headers, upgrade>>

\* drain() returns once writing has been resumed; send() goes on with the
\* transport it read before it was suspended.
drain_return(r) ==
  /\ ~feeding /\ task[r].st = "draining" /\ ~write_paused
  /\ SendWrites(r, app[task[r].pc + 1])
  /\ UNCHANGED request
  /\ UNCHANGED <<fixed, app, write_paused, parser, feeding, headers, upgrade>>

\* The consumer coroutine returns or raises: nothing awaits the task that
\* loop.create_task started, so the protocol is not told.
consumer_done(r) ==
  /\ ~feeding /\ task[r].st = "running"
  /\ task' = [task EXCEPT ![r].st = "done"]
  /\ UNCHANGED request
  /\ UNCHANGED <<fixed, app, transport, wire, read_paused, write_paused, buffer_size,
                 active_request, pipeline_queue, total_requests,
                 use_chunked_encoding, should_keep_alive, parser, feeding,
                 headers, upgrade, channels>>

\* The client: what is left for the parser to find in the data it is fed.
\* Every specification bounds the requests, headers and body chunks of its
\* client and the send calls of its application in its next-state relation.
MoreData(requests) == parser.pos # "idle" \/ parser.cur < requests

\* received and fed record what a run shows of the body channel; a
\* specification whose claims do not read them leaves them alone.
Unobserved == UNCHANGED <<received, fed, idle_time>>

Next ==
  \/ pause_writing /\ Unobserved
  \/ resume_writing /\ Unobserved
  \/ connection_lost /\ Unobserved
  \/ MoreData(MaxRequests) /\ data_received /\ Unobserved
  \/ data_received_return /\ Unobserved
  \/ \E keep_alive \in BOOLEAN : on_message_begin(keep_alive) /\ Unobserved
  \/ on_url /\ Unobserved
  \/ \E h \in RequestHeaders : Len(headers) < MaxHeaders /\ on_header(h[1], h[2]) /\ Unobserved
  \/ \E body \in BodyChunks : parser.nbody < MaxBodyChunks /\ on_body(body) /\ Unobserved
  \/ on_message_complete /\ Unobserved
  \/ \E r \in Requests : receive(r) /\ Unobserved
  \/ \E r \in Requests : SendCalls(MaxRequests) < MaxSends /\ send(r) /\ Unobserved
  \/ \E r \in Requests : drain_return(r) /\ Unobserved
  \/ \E r \in Requests : consumer_done(r) /\ Unobserved

Spec == Init /\ [][Next]_vars


\* ------------------------------------------- flow control specification
\* The same connection with the limits of the protocol object set low (they
\* are attributes of the instance), a client that sends request bodies in
\* several chunks, and what the body channel shows recorded.  A task that
\* ends is a task that takes no further step, and a send that awaits drain()
\* is a send that happens later, so neither has an action of its own here.
FlowRequests == 2
FlowChunks == 2
FlowSends == 2
FlowHighWater == 1
FlowLowWater == 1
FlowPipelined == 1

FlowApps == {AppSingle, AppHello}
FlowBodyChunks == {<<"p">>, <<"q", "r">>}

\* The body chunks the client has sent on the connection.
RECURSIVE SentChunks(_)
SentChunks(n) == IF n = 0 THEN 0 ELSE Len(request[n].body) + SentChunks(n - 1)

FlowInit ==
  /\ app \in FlowApps
  /\ ProtocolInit
  /\ high_water_limit = FlowHighWater
  /\ low_water_limit = FlowLowWater
  /\ max_pipelined_requests = FlowPipelined
  /\ NoLifespan
  /\ NoServer

ObserveData == fed' = 0 /\ UNCHANGED <<received, idle_time>>
ObserveBody(body) == fed' = fed + Len(body) /\ UNCHANGED <<received, idle_time>>
ObserveReceive(r) ==
  /\ received' = [received EXCEPT ![r] = Append(@, Head(channels[r].queue))]
  /\ UNCHANGED <<fed, idle_time>>

FlowNext ==
  \/ connection_lost /\ Unobserved
  \/ MoreData(FlowRequests) /\ data_received /\ ObserveData
  \/ data_received_return /\ Unobserved
  \/ \E keep_alive \in BOOLEAN :
       parser.cur < FlowRequests /\ on_message_begin(keep_alive) /\ Unobserved
  \/ on_url /\ Unobserved
  \/ \E body \in FlowBodyChunks :
       SentChunks(MaxRequests) < FlowChunks /\ on_body(body) /\ ObserveBody(body)
  \/ on_message_complete /\ Unobserved
  \/ \E r \in Requests : receive(r) /\ ObserveReceive(r)
  \/ \E r \in Requests : SendCalls(MaxRequests) < FlowSends /\ send(r) /\ Unobserved

FlowSpec == FlowInit /\ [][FlowNext]_vars

\* ----------------------------------------------- expect: 100-continue
\* The connection of Spec with a client whose requests carry up to
\* ExpectHeaderLines header lines, among them expect: 100-continue in mixed
\* case, and an application that answers with one message.
ExpectRequests == 2
ExpectHeaderLines == 2

ExpectApps == {AppSingle}
ExpectRequestHeaders ==
  {<<"host", "example.org">>, <<"Expect", "100-Continue">>}

ExpectInit ==
  /\ app \in ExpectApps
  /\ ProtocolInit
  /\ DefaultLimits
  /\ NoLifespan
  /\ NoServer

ExpectNext ==
  \/ connection_lost /\ Unobserved
  \/ MoreData(ExpectRequests) /\ data_received /\ Unobserved
  \/ data_received_return /\ Unobserved
  \/ \E keep_alive \in BOOLEAN :
       parser.cur < ExpectRequests /\ on_message_begin(keep_alive) /\ Unobserved
  \/ on_url /\ Unobserved
  \/ \E h \in ExpectRequestHeaders :
       Len(headers) < ExpectHeaderLines /\ on_header(h[1], h[2]) /\ Unobserved
  \/ \E body \in BodyChunks :
       SentChunks(MaxRequests) < MaxBodyChunks /\ on_body(body) /\ Unobserved
  \/ on_message_complete /\ Unobserved
  \/ \E r \in Requests : receive(r) /\ Unobserved
  \/ \E r \in Requests : send(r) /\ Unobserved

ExpectSpec == ExpectInit /\ [][ExpectNext]_vars

\* The connection with the low limits and the client of Spec, which pipelines
\* up to MaxRequests requests in one data_received call.
PipelineSpec == FlowInit /\ [][Next]_vars

\* ----------------------------------------------------- limit_concurrency
\* The connection and the client of Spec under a configuration that sets
\* limit_concurrency to 1, with an application that answers each request
\* with one message.
ConcurrencyInit ==
  /\ app \in {AppSingle}
  /\ ProtocolInit
  /\ DefaultLimits
  /\ NoLifespan
  /\ config = [DefaultConfig EXCEPT !.limit_concurrency = 1]
  /\ server = NewServer("none", FALSE)
  /\ server_state = NewServerState
  /\ protocols = <<>>

ConcurrencySpec == ConcurrencyInit /\ [][Next]_vars

\* ------------------------------------------------------- upgrade header
\* The connection of Spec with a client whose requests may carry an upgrade
\* header without the connection: upgrade that would make the parser raise
\* HttpParserUpgrade: the parser goes on to the next request.
UpgradeClientRequests == 2
UpgradeHeaderLines == 1

UpgradeRequestHeaders == {<<"host", "example.org">>, <<"Upgrade", "h2c">>}

UpgradeInit ==
  /\ app \in {AppSingle}
  /\ ProtocolInit
  /\ DefaultLimits
  /\ NoLifespan
  /\ NoServer

UpgradeNext ==
  \/ connection_lost /\ Unobserved
  \/ MoreData(UpgradeClientRequests) /\ data_received /\ Unobserved
  \/ data_received_return /\ Unobserved
  \/ \E keep_alive \in BOOLEAN :
       parser.cur < UpgradeClientRequests /\ on_message_begin(keep_alive) /\ Unobserved
  \/ on_url /\ Unobserved
  \/ \E h \in UpgradeRequestHeaders :
       Len(headers) < UpgradeHeaderLines /\ on_header(h[1], h[2]) /\ Unobserved
  \/ on_message_complete /\ Unobserved
  \/ \E r \in Requests : send(r) /\ Unobserved

UpgradeSpec == UpgradeInit /\ [][UpgradeNext]_vars

\* -------------------------------------------------------- write pausing
\* The connection of Spec with requests that have no headers and no body,
\* and a transport that pauses and resumes writing and can be lost while a
\* send awaits drain().
PausedRequests == 2
PausedSends == 3

PausedInit ==
  /\ app \in {AppSingle, AppStream}
  /\ ProtocolInit
  /\ DefaultLimits
  /\ NoLifespan
  /\ NoServer

\* drain() ends with an exception because the connection is gone: the send
\* that awaited it ends there and so does its task.
drain_raises(r) ==
  /\ ~feeding /\ task[r].st = "draining" /\ transport # "open"
  /\ task' = [task EXCEPT ![r].st = "done"]
  /\ UNCHANGED request
  /\ UNCHANGED <<fixed, app, transport, wire, read_paused, write_paused,
                 buffer_size, active_request, pipeline_queue, total_requests,
                 use_chunked_encoding, should_keep_alive, parser, feeding,
                 headers, upgrade, channels>>

PausedNext ==
  \/ pause_writing /\ Unobserved
  \/ resume_writing /\ Unobserved
  \/ connection_lost /\ Unobserved
  \/ MoreData(PausedRequests) /\ data_received /\ Unobserved
  \/ data_received_return /\ Unobserved
  \/ \E keep_alive \in BOOLEAN : on_message_begin(keep_alive) /\ Unobserved
  \/ on_url /\ Unobserved
  \/ on_message_complete /\ Unobserved
  \/ \E r \in Requests : SendCalls(MaxRequests) < PausedSends /\ send(r) /\ Unobserved
  \/ \E r \in Requests : drain_return(r) /\ Unobserved
  \/ \E r \in Requests : drain_raises(r) /\ Unobserved

PausedSpec == PausedInit /\ [][PausedNext]_vars

\* ------------------------------------------------------------ parse error
\* The connection of Spec with a client that may send bytes the parser
\* rejects.  feed_data() then raises HttpParserError, which data_received
\* does not catch (it catches HttpParserUpgrade only): the exception leaves
\* the protocol, and what becomes of the connection is up to the caller, an
\* event loop that closes the transport and calls connection_lost, or one
\* that lets the exception pass and leaves the transport as it is.
MalformedInit ==
  /\ app \in {AppSingle}
  /\ ProtocolInit
  /\ DefaultLimits
  /\ NoLifespan
  /\ NoServer

\* data_received when feed_data() raises HttpParserError.
data_received_raises ==
  /\ feeding /\ parser.pos # "error"
  /\ parser' = [parser EXCEPT !.pos = "error"]
  /\ feeding' = FALSE
  /\ transport' \in {transport, IF transport = "open" THEN "lost" ELSE transport}
  /\ UNCHANGED request
  /\ UNCHANGED <<fixed, app, wire, read_paused, write_paused, buffer_size,
                 active_request, pipeline_queue, total_requests,
                 use_chunked_encoding, should_keep_alive, headers, upgrade,
                 channels, task>>

MalformedNext ==
  \/ Next
  \/ data_received_raises /\ Unobserved

MalformedSpec == MalformedInit /\ [][MalformedNext]_vars

\* -------------------------------------------------------------- websocket
\* The connection from the request that asks for a websocket to the
\* application's last message on the upgraded connection.
MaxWebSocketSends == 3
MaxFrames == 2

WebSocketKeys == {"k1", "k2"}

\* What the client sends with the upgrade request: a complete handshake for
\* a key, or one that lacks the key.
HandshakeHeaders(key) ==
  <<<<"upgrade", "websocket">>, <<"connection", "Upgrade">>,
    <<"sec-websocket-key", key>>, <<"sec-websocket-version", "13">>>>
UpgradeRequests ==
  {HandshakeHeaders(key) : key \in WebSocketKeys}
    \cup {<<<<"upgrade", "websocket">>, <<"connection", "Upgrade">>>>}

\* get_header: dict(http.headers).get(key, b'').
get_header(hs, key) ==
  IF \E k \in 1..Len(hs) : hs[k][1] = key
  THEN LET last == CHOOSE k \in 1..Len(hs) :
                     /\ hs[k][1] = key
                     /\ \A j \in (k + 1)..Len(hs) : hs[j][1] # key
       IN hs[last][2]
  ELSE ""

\* The digest build_response answers a key with.
AcceptOf(key) == CASE key = "k1" -> "a1" [] key = "k2" -> "a2" [] OTHER -> ""

\* check_request and build_response: the headers the handshake negotiates.
response_headers(hs) ==
  <<<<"Upgrade", "WebSocket">>, <<"Connection", "Upgrade">>,
    <<"Sec-WebSocket-Accept", AcceptOf(get_header(hs, "sec-websocket-key"))>>>>

ValidHandshake(hs) ==
  /\ get_header(hs, "upgrade") = "websocket"
  /\ get_header(hs, "sec-websocket-key") \in WebSocketKeys
  /\ get_header(hs, "sec-websocket-version") = "13"

InvalidHandshake ==
  Message(400, <<<<"content-type", "text/plain">>>>,
          <<"I", "n", "v", "a", "l", "i", "d", " ", "W", "e", "b", "S", "o",
            "c", "k", "e", "t", " ", "h", "a", "n", "d", "s", "h", "a", "k",
            "e">>, FALSE)

\* The messages an application passes to the websocket reply channel.
WebSocketMessages ==
  [accept : {PyNone, PyTrue, PyFalse}, text : {PyNone, "", "hi"},
   bytes : {PyNone, "yo"}, close : {PyNone, PyTrue, "1001"}]

WebSocketInit ==
  /\ app \in {AppSingle}
  /\ ProtocolInit
  /\ DefaultLimits
  /\ NoLifespan
  /\ NoServer

\* data_received with a request that carries an upgrade header: the parser
\* callbacks store its headers, feed_data raises HttpParserUpgrade and
\* websocket_upgrade(http) checks the handshake.
websocket_upgrade(hs) ==
  /\ ~feeding /\ transport = "open" /\ parser.pos = "idle"
  /\ websocket.st = "none" /\ parser.cur < MaxRequests
  /\ parser' = [parser EXCEPT !.cur = @ + 1]
  /\ headers' = hs
  /\ upgrade' = get_header(hs, "upgrade")
  /\ websocket' = IF ValidHandshake(hs)
                  THEN [websocket EXCEPT
                          !.st = "open",
                          !.accept_headers = response_headers(hs),
                          !.consumed = <<[channel |-> "websocket.connect",
                                          order |-> 0, text |-> PyNone,
                                          bytes |-> PyNone, code |-> PyNone]>>]
                  ELSE [websocket EXCEPT !.st = "invalid"]
  /\ UNCHANGED <<app, transport, wire, read_paused, write_paused, buffer_size,
                 active_request, pipeline_queue, total_requests,
                 use_chunked_encoding, should_keep_alive, feeding, channels,
                 task, high_water_limit, low_water_limit,
                 max_pipelined_requests, request, received, fed,
                 lifespan_vars, server_vars, idle_time,
                 starlette_vars>>

\* The task websocket_upgrade starts on an invalid handshake: the http
\* reply channel sends the 400 response.
invalid_handshake_reply ==
  /\ websocket.st = "invalid" /\ transport = "open"
  /\ SendWrites(parser.cur, InvalidHandshake)
  /\ websocket' = [websocket EXCEPT !.st = "refused"]
  /\ UNCHANGED <<app, write_paused, parser, feeding, headers, upgrade,
                 high_water_limit, low_water_limit, max_pipelined_requests,
                 request, received, fed, lifespan_vars, server_vars, idle_time,
                 starlette_vars>>

\* WebSocketProtocol.accept: the bytes it writes.
accept(accept_headers) ==
  <<"HTTP/1.1", "101", "Switching Protocols", CRLF>>
    \o HeaderLines(accept_headers) \o <<CRLF>>

\* A close code that is always 1000.
CloseCodeNormal(close) == "1000"

\* The code of the close frame.
CloseCode(close) == IF close = PyTrue THEN "1000" ELSE close

\* ReplyChannel.send(message) on the upgraded connection.
websocket_send(message) ==
  /\ websocket.st = "open" /\ transport # "lost"
  /\ websocket.sends < MaxWebSocketSends
  /\ LET accepts == /\ ~websocket.accepted
                    /\ \/ message.accept = PyTrue
                       \/ /\ message.accept = PyNone
                          /\ Truthy(message.text) \/ Truthy(message.bytes)
         refuses == ~websocket.accepted /\ ~accepts /\ message.accept = PyFalse
         accepted == websocket.accepted \/ accepts
         text_data == IF refuses THEN PyNone ELSE message.text
         bytes_data == IF refuses THEN PyNone ELSE message.bytes
         close == IF refuses THEN PyTrue ELSE message.close
         data == IF Truthy(text_data)
                 THEN <<[opcode |-> "text", payload |-> text_data]>>
                 ELSE IF Truthy(bytes_data)
                 THEN <<[opcode |-> "binary", payload |-> bytes_data]>>
                 ELSE <<>>
         closes == Truthy(close)
     IN /\ wire' = wire
                     \o (IF accepts
                         THEN <<Write(parser.cur, accept(websocket.accept_headers))>>
                         ELSE <<>>)
                     \o (IF closes /\ ~accepted
                         THEN <<Write(parser.cur,
                                      <<"HTTP/1.1", "403", "Forbidden", CRLF, CRLF>>)>>
                         ELSE <<>>)
        /\ transport' = IF closes /\ ~accepted THEN "closed" ELSE transport
        /\ websocket' =
             [websocket EXCEPT
                !.accepted = accepted,
                !.reader = @ \/ accepts,
                !.frames = @ \o data
                             \o (IF closes /\ accepted
                                 THEN <<[opcode |-> "close",
                                         payload |-> CloseCode(close)]>>
                                 ELSE <<>>),
                !.st = IF closes /\ accepted THEN "closing" ELSE @,
                !.message = message,
                !.sends = @ + 1]
  /\ UNCHANGED <<app, read_paused, write_paused, buffer_size, active_request,
                 pipeline_queue, total_requests, use_chunked_encoding,
                 should_keep_alive, parser, feeding, headers, upgrade,
                 channels, task, high_water_limit, low_water_limit,
                 max_pipelined_requests, request, received, fed,
                 lifespan_vars, server_vars, idle_time,
                 starlette_vars>>

\* What only the websocket side of the connection assigns.
outside_websocket ==
  <<app, transport, wire, read_paused, write_paused, buffer_size,
    active_request, pipeline_queue, total_requests, use_chunked_encoding,
    should_keep_alive, parser, feeding, headers, upgrade, channels, task,
    high_water_limit, low_water_limit, max_pipelined_requests, request,
    received, fed, lifespan_vars, server_vars, idle_time,
                 starlette_vars>>

\* The frames a client sends and the codes it closes with.
ClientFrames ==
  {[opcode |-> "text", payload |-> "a"], [opcode |-> "binary", payload |-> "b"]}
ClientCloseCodes == {"1000", "1001"}

\* The codec receives a data frame from the client: recv() will return it.
client_frame(frame) ==
  /\ websocket.st \in {"open", "closing"} /\ transport = "open"
  /\ websocket.close_code = PyNone
  /\ websocket.arrived < MaxFrames
  /\ websocket' = [websocket EXCEPT !.inbound = Append(@, frame),
                                    !.arrived = @ + 1]
  /\ UNCHANGED outside_websocket

\* The codec receives the client's close frame.
client_close(code) ==
  /\ websocket.st \in {"open", "closing"} /\ transport = "open"
  /\ websocket.close_code = PyNone
  /\ websocket' = [websocket EXCEPT !.close_code = code]
  /\ UNCHANGED outside_websocket

Disconnected ==
  \E k \in 1..Len(websocket.consumed) :
    websocket.consumed[k].channel = "websocket.disconnect"

\* reader (lines 72-91): recv() returns a message and the reader starts
\* the consumer with it.
reader_receive ==
  /\ websocket.reader /\ ~Disconnected
  /\ websocket.inbound # <<>>
  /\ LET data == Head(websocket.inbound)
     IN websocket' =
          [websocket EXCEPT
             !.inbound = Tail(@),
             !.order = @ + 1,
             !.consumed =
                Append(@, [channel |-> "websocket.receive",
                           order |-> websocket.order,
                           text |-> IF data.opcode = "text"
                                    THEN data.payload ELSE PyNone,
                           bytes |-> IF data.opcode = "binary"
                                     THEN data.payload ELSE PyNone,
                           code |-> PyNone])]
  /\ UNCHANGED outside_websocket

\* A reader that reports every close as a normal one.
reader_disconnect_normal ==
  /\ websocket.reader /\ ~Disconnected
  /\ websocket.inbound = <<>> /\ websocket.close_code # PyNone
  /\ websocket' =
       [websocket EXCEPT
          !.consumed =
             Append(@, [channel |-> "websocket.disconnect",
                        order |-> websocket.order, text |-> PyNone,
                        bytes |-> PyNone, code |-> "1000"])]
  /\ UNCHANGED outside_websocket

\* reader (lines 75-77, 93-99): recv() raises ConnectionClosed and the
\* reader starts the consumer with the disconnect message.
reader_disconnect ==
  /\ websocket.reader /\ ~Disconnected
  /\ websocket.inbound = <<>> /\ websocket.close_code # PyNone
  /\ websocket' =
       [websocket EXCEPT
          !.consumed =
             Append(@, [channel |-> "websocket.disconnect",
                        order |-> websocket.order, text |-> PyNone,
                        bytes |-> PyNone, code |-> websocket.close_code])]
  /\ UNCHANGED outside_websocket

WebSocketNext ==
  \/ \E hs \in UpgradeRequests : websocket_upgrade(hs)
  \/ invalid_handshake_reply
  \/ \E message \in WebSocketMessages : websocket_send(message)

WebSocketSpec == WebSocketInit /\ [][WebSocketNext]_vars

\* The upgraded connection with its client: the application accepts, sends
\* text and closes; the client sends frames and closes.
ReaderMessages ==
  {[NoMessage EXCEPT !.accept = PyTrue], [NoMessage EXCEPT !.text = "hi"],
   [NoMessage EXCEPT !.close = PyTrue]}

ReaderNext ==
  \/ \E hs \in UpgradeRequests : websocket_upgrade(hs)
  \/ invalid_handshake_reply
  \/ \E message \in ReaderMessages : websocket_send(message)
  \/ \E frame \in ClientFrames : client_frame(frame)
  \/ \E code \in ClientCloseCodes : client_close(code)
  \/ reader_receive
  \/ reader_disconnect

\* The reader is a task of the event loop: it runs when recv() can return.
ReaderSpec ==
  /\ WebSocketInit /\ [][ReaderNext]_vars
  /\ WF_vars(reader_receive) /\ WF_vars(reader_disconnect)

\* ------------------------------------------------------- keep-alive time
\* The connection of Spec with a clock: idle_time counts the seconds that
\* pass while the connection is open between requests, and any callback or
\* send sets it back to zero.
KeepAliveRequests == 2
MaxIdleTime == 6

KeepAliveInit ==
  /\ app \in {AppSingle}
  /\ ProtocolInit
  /\ DefaultLimits
  /\ NoLifespan
  /\ NoServer

\* The last response is complete and nothing of a next request has come.
IdleBetweenRequests ==
  /\ transport = "open" /\ ~feeding /\ parser.pos = "idle"
  /\ active_request = None /\ pipeline_queue = <<>>
  /\ total_requests >= 1

Activity == idle_time' = 0 /\ UNCHANGED <<received, fed>>

\* A second passes on an idle connection; no callback of the protocol runs.
time_passes ==
  /\ IdleBetweenRequests
  /\ idle_time' = idle_time + 1
  /\ UNCHANGED <<fixed, app, transport, wire, read_paused, write_paused,
                 buffer_size, active_request, pipeline_queue, total_requests,
                 use_chunked_encoding, should_keep_alive, parser, feeding,
                 headers, upgrade, channels, task, request, received, fed>>

KeepAliveNext ==
  \/ idle_time < MaxIdleTime /\ time_passes
  \/ connection_lost /\ Activity
  \/ MoreData(KeepAliveRequests) /\ data_received /\ Activity
  \/ data_received_return /\ Activity
  \/ \E keep_alive \in BOOLEAN :
       parser.cur < KeepAliveRequests /\ on_message_begin(keep_alive) /\ Activity
  \/ on_url /\ Activity
  \/ on_message_complete /\ Activity
  \/ \E r \in Requests : send(r) /\ Activity
  \/ \E r \in Requests : consumer_done(r) /\ Activity

KeepAliveSpec == KeepAliveInit /\ [][KeepAliveNext]_vars

\* ------------------------------------------------------------ LifespanOn
\* lifespan/on.py: startup() and shutdown() are called by the server, main()
\* runs the application on a lifespan scope.  The application is the
\* sequence of the steps it takes: "receive", a send of one of the four
\* message types of the lifespan protocol, or "raise"; at the end of the
\* sequence it returns.
MaxLifespanSteps == 4

LifespanSteps ==
  {"receive", "lifespan.startup.complete", "lifespan.startup.failed",
   "lifespan.shutdown.complete", "lifespan.shutdown.failed", "raise"}

LifespanApps == UNION {[1..n -> LifespanSteps] : n \in 0..MaxLifespanSteps}

\* The variables no method of LifespanOn assigns: the connection's and the
\* server's.
http_vars == <<app, transport, wire, read_paused, write_paused, buffer_size,
               active_request, pipeline_queue, total_requests,
               use_chunked_encoding, should_keep_alive, parser, feeding,
               headers, upgrade, channels, task, high_water_limit,
               low_water_limit, max_pipelined_requests, request, received, fed,
               server_vars, websocket, idle_time, starlette_vars>>

\* LifespanOn.__init__, for config.lifespan "auto" or "on".
LifespanInit ==
  /\ app = AppNoResponse
  /\ ProtocolInit
  /\ DefaultLimits
  /\ lifespan \in {"auto", "on"}
  /\ lifespan_app \in LifespanApps
  /\ startup_event = FALSE
  /\ shutdown_event = FALSE
  /\ receive_queue = <<>>
  /\ error_occured = FALSE
  /\ should_exit = FALSE
  /\ pc = [startup |-> "none", shutdown |-> "none", main |-> "none", app |-> 0]
  /\ NoServer

\* The step the application takes next.
NextStep ==
  IF pc.app < Len(lifespan_app) THEN lifespan_app[pc.app + 1] ELSE "return"

\* The main task is not running, or it is suspended in receive() on an empty
\* queue: only then does the event loop run another coroutine.
MainYields ==
  \/ pc.main # "running"
  \/ NextStep = "receive" /\ receive_queue = <<>>

\* startup() up to its await of startup_event.wait().
startup ==
  /\ pc.startup = "none"
  /\ receive_queue' = Append(receive_queue, "lifespan.startup")
  /\ pc' = [pc EXCEPT !.startup = "waiting", !.main = "running"]
  /\ UNCHANGED <<lifespan, lifespan_app, startup_event, shutdown_event,
                 error_occured, should_exit, http_vars>>

\* A startup() that takes no decision after the wait.
startup_return_plain ==
  /\ pc.startup = "waiting" /\ startup_event /\ MainYields
  /\ pc' = [pc EXCEPT !.startup = "returned"]
  /\ UNCHANGED <<lifespan, lifespan_app, startup_event, shutdown_event,
                 receive_queue, error_occured, should_exit, http_vars>>

\* startup() from the wait to its return.
startup_return ==
  /\ pc.startup = "waiting" /\ startup_event /\ MainYields
  /\ should_exit' = IF error_occured /\ (should_exit \/ lifespan = "on")
                    THEN TRUE ELSE should_exit
  /\ pc' = [pc EXCEPT !.startup = "returned"]
  /\ UNCHANGED <<lifespan, lifespan_app, startup_event, shutdown_event,
                 receive_queue, error_occured, http_vars>>

\* A shutdown() that does not look at error_occured.
shutdown_always ==
  /\ pc.startup = "returned" /\ pc.shutdown = "none" /\ MainYields
  /\ receive_queue' = Append(receive_queue, "lifespan.shutdown")
  /\ pc' = [pc EXCEPT !.shutdown = IF shutdown_event THEN "returned"
                                   ELSE "waiting"]
  /\ UNCHANGED <<lifespan, lifespan_app, startup_event, shutdown_event,
                 error_occured, should_exit, http_vars>>

\* shutdown() up to its return or its await of shutdown_event.wait(), which
\* does not suspend when the event is already set.
shutdown ==
  /\ pc.startup = "returned" /\ pc.shutdown = "none" /\ MainYields
  /\ IF error_occured
     THEN /\ pc' = [pc EXCEPT !.shutdown = "returned"]
          /\ UNCHANGED receive_queue
     ELSE /\ receive_queue' = Append(receive_queue, "lifespan.shutdown")
          /\ pc' = [pc EXCEPT !.shutdown = IF shutdown_event THEN "returned"
                                           ELSE "waiting"]
  /\ UNCHANGED <<lifespan, lifespan_app, startup_event, shutdown_event,
                 error_occured, should_exit, http_vars>>

shutdown_return ==
  /\ pc.shutdown = "waiting" /\ shutdown_event /\ MainYields
  /\ pc' = [pc EXCEPT !.shutdown = "returned"]
  /\ UNCHANGED <<lifespan, lifespan_app, startup_event, shutdown_event,
                 receive_queue, error_occured, should_exit, http_vars>>

\* LifespanOn.receive, called by the application.
lifespan_receive ==
  /\ pc.main = "running" /\ NextStep = "receive" /\ receive_queue # <<>>
  /\ receive_queue' = Tail(receive_queue)
  /\ pc' = [pc EXCEPT !.app = @ + 1]
  /\ UNCHANGED <<lifespan, lifespan_app, startup_event, shutdown_event,
                 error_occured, should_exit, http_vars>>

\* The message types the first assertion of LifespanOn.send lets through.
SendTypes ==
  {"lifespan.startup.complete", "lifespan.startup.failed",
   "lifespan.shutdown.complete"}

\* The assertions of LifespanOn.send for a message type.
SendAllowed(type) ==
  /\ type \in SendTypes
  /\ IF type = "lifespan.shutdown.complete"
     THEN startup_event /\ ~shutdown_event
     ELSE ~startup_event /\ ~shutdown_event

\* LifespanOn.send, called by the application with a message its
\* assertions accept.
lifespan_send(type) ==
  /\ pc.main = "running" /\ NextStep = type /\ SendAllowed(type)
  /\ startup_event' = IF type = "lifespan.shutdown.complete"
                      THEN startup_event ELSE TRUE
  /\ shutdown_event' = IF type = "lifespan.shutdown.complete"
                       THEN TRUE ELSE shutdown_event
  /\ error_occured' = IF type = "lifespan.startup.failed"
                      THEN TRUE ELSE error_occured
  /\ should_exit' = IF type = "lifespan.startup.failed" THEN TRUE ELSE should_exit
  /\ pc' = [pc EXCEPT !.app = @ + 1]
  /\ UNCHANGED <<lifespan, lifespan_app, receive_queue, http_vars>>

\* The application raises, itself or by a send whose assertion fails:
\* main()'s except and finally.
main_raises ==
  /\ pc.main = "running"
  /\ \/ NextStep = "raise"
     \/ /\ NextStep \in LifespanSteps \ {"receive", "raise"}
        /\ ~SendAllowed(NextStep)
  /\ error_occured' = IF should_exit THEN error_occured ELSE TRUE
  /\ startup_event' = TRUE
  /\ shutdown_event' = TRUE
  /\ pc' = [pc EXCEPT !.main = "raised"]
  /\ UNCHANGED <<lifespan, lifespan_app, receive_queue, should_exit, http_vars>>

\* The application returns: main()'s finally.
main_returns ==
  /\ pc.main = "running" /\ NextStep = "return"
  /\ startup_event' = TRUE
  /\ shutdown_event' = TRUE
  /\ pc' = [pc EXCEPT !.main = "returned"]
  /\ UNCHANGED <<lifespan, lifespan_app, receive_queue, error_occured,
                 should_exit, http_vars>>

LifespanNext ==
  \/ startup
  \/ startup_return
  \/ shutdown
  \/ shutdown_return
  \/ lifespan_receive
  \/ \E type \in LifespanSteps \ {"receive", "raise"} : lifespan_send(type)
  \/ main_raises
  \/ main_returns

LifespanSpec == LifespanInit /\ [][LifespanNext]_vars

\* A send that sets the startup event before it looks at it.
lifespan_send_sets_first(type) ==
  /\ pc.main = "running" /\ NextStep = type /\ ~SendAllowed(type)
  /\ startup_event' = TRUE
  /\ pc' = [pc EXCEPT !.app = @ + 1]
  /\ UNCHANGED <<lifespan, lifespan_app, receive_queue, shutdown_event,
                 error_occured, should_exit, http_vars>>

\* LifespanOn.send with a message one of its assertions rejects, called by
\* an application that catches the AssertionError and goes on: every
\* assertion of send comes before its first assignment.
lifespan_send_rejected(type) ==
  /\ pc.main = "running" /\ NextStep = type /\ ~SendAllowed(type)
  /\ pc' = [pc EXCEPT !.app = @ + 1]
  /\ UNCHANGED <<lifespan, lifespan_app, receive_queue, startup_event,
                 shutdown_event, error_occured, should_exit, http_vars>>

\* LifespanOn with applications that may survive a rejected send.
RejectedNext ==
  \/ LifespanNext
  \/ \E type \in LifespanSteps \ {"receive", "raise"} : lifespan_send_rejected(type)

RejectedSpec == LifespanInit /\ [][RejectedNext]_vars

\* ---------------------------------------------------------------- Server
\* main.py: Server.run() and the tick() task, with the connections the
\* listener accepts.  The protocol class of a connection and the Lifespan
\* class are not part of the sources: a connection is the record of what the
\* specification says of it (created on accept, a cycle per request, closed
\* when told to shut down while idle or after its response), a handshake is
\* the phase of the lifespan cycle.
MaxConnections == 2
MaxSignals == 2
MaxServerRequests == 2

Connections == 1..MaxConnections

NoProtocol == [st |-> "none", keep_alive |-> TRUE, written |-> 0, told |-> FALSE]

\* The requests the connections have received so far, but for those of
\* connections lost with their cycle active.
ServerRequests ==
  server_state.total_requests
    + Cardinality({c \in Connections : protocols[c].st = "active"})

\* What no method of the server and no connection it accepts assigns.
outside_server ==
  <<app, transport, wire, read_paused, write_paused, buffer_size,
    active_request, pipeline_queue, total_requests, use_chunked_encoding,
    should_keep_alive, parser, feeding, headers, upgrade, channels, task,
    high_water_limit, low_water_limit, max_pipelined_requests, request,
    received, fed, lifespan_vars, websocket, idle_time, starlette_vars>>

ServerInit ==
  /\ app = AppNoResponse
  /\ ProtocolInit
  /\ DefaultLimits
  /\ NoLifespan
  /\ config \in {[DefaultConfig EXCEPT !.limit_max_requests = l,
                                       !.disable_lifespan = d] :
                   l \in {None, 1}, d \in BOOLEAN}
  /\ server \in {NewServer("init", e) : e \in BOOLEAN}
  /\ server_state = NewServerState
  /\ protocols = [c \in Connections |-> NoProtocol]

\* The event loop runs: between run()'s first run_until_complete and
\* loop.stop().
LoopRuns == server.pc \notin {"none", "init", "returned", "stopped"}

HandshakeWanted == ~config.disable_lifespan /\ server.lifespan.is_enabled

\* run() up to wait_startup(), or up to create_server() without a handshake.
run ==
  /\ server.pc = "init"
  /\ server' = IF HandshakeWanted
               THEN [server EXCEPT !.pc = "wait_startup",
                                   !.lifespan.phase = "StartupPending"]
               ELSE [server EXCEPT !.pc = "create_server"]
  /\ UNCHANGED <<config, server_state, protocols, outside_server>>

\* The application answers lifespan.startup.
lifespan_startup_answer(complete) ==
  /\ LoopRuns /\ server.lifespan.phase = "StartupPending"
  /\ server' = IF complete
               THEN [server EXCEPT !.lifespan.phase = "Ready"]
               ELSE [server EXCEPT !.lifespan.phase = "Closed",
                                   !.lifespan.error_occured = TRUE]
  /\ UNCHANGED <<config, server_state, protocols, outside_server>>

\* A run() that goes on to the listener whatever the handshake gave.
wait_startup_return_anyway ==
  /\ server.pc = "wait_startup" /\ server.lifespan.phase # "StartupPending"
  /\ server' = [server EXCEPT !.pc = "create_server"]
  /\ UNCHANGED <<config, server_state, protocols, outside_server>>

\* run() from the return of wait_startup() to its return or create_server().
wait_startup_return ==
  /\ server.pc = "wait_startup" /\ server.lifespan.phase # "StartupPending"
  /\ server' = [server EXCEPT !.pc = IF server.lifespan.error_occured
                                     THEN "returned" ELSE "create_server"]
  /\ UNCHANGED <<config, server_state, protocols, outside_server>>

\* create_server(), then run() starts the tick() task and the loop.
create_server ==
  /\ server.pc = "create_server"
  /\ server' = [server EXCEPT !.server = "listening", !.pc = "tick"]
  /\ UNCHANGED <<config, server_state, protocols, outside_server>>

\* A handler that forces the exit at the first signal.
handle_exit_force ==
  /\ LoopRuns
  /\ server' = [server EXCEPT !.force_exit = TRUE, !.signals = @ + 1]
  /\ UNCHANGED <<config, server_state, protocols, outside_server>>

\* handle_exit, called by the loop on SIGINT or SIGTERM.
handle_exit ==
  /\ LoopRuns
  /\ server' = IF server.should_exit
               THEN [server EXCEPT !.force_exit = TRUE, !.signals = @ + 1]
               ELSE [server EXCEPT !.should_exit = TRUE, !.signals = @ + 1]
  /\ UNCHANGED <<config, server_state, protocols, outside_server>>

LimitReached ==
  /\ config.limit_max_requests # None
  /\ server_state.total_requests >= config.limit_max_requests

\* A tick() that does not look at the request count.
tick_unlimited ==
  /\ server.pc = "tick"
  /\ server' = [server EXCEPT !.pc = IF server.should_exit
                                     THEN "close" ELSE "sleep"]
  /\ UNCHANGED <<config, server_state, protocols, outside_server>>

\* One test of tick()'s loop: it leaves the loop, or calls on_tick() and
\* sleeps.
tick ==
  /\ server.pc = "tick"
  /\ server' = [server EXCEPT !.pc = IF server.should_exit \/ LimitReached
                                     THEN "close" ELSE "sleep"]
  /\ UNCHANGED <<config, server_state, protocols, outside_server>>

\* The sleep of one second ends.
tick_wake ==
  /\ server.pc = "sleep"
  /\ server' = [server EXCEPT !.pc = "tick"]
  /\ UNCHANGED <<config, server_state, protocols, outside_server>>

\* server.close() and wait_closed().
server_close ==
  /\ server.pc = "close"
  /\ server' = [server EXCEPT !.server = "closed", !.pc = "shutdown"]
  /\ UNCHANGED <<config, server_state, protocols, outside_server>>

\* connection.shutdown(): an idle connection closes its transport, one with
\* an active cycle closes after its response.
shutdown_connection(p) ==
  IF p.st = "idle" THEN [p EXCEPT !.st = "closing", !.told = TRUE]
  ELSE [p EXCEPT !.keep_alive = FALSE, !.told = TRUE]

\* A tick() that tells no connection to shut down.
shutdown_connections_skip ==
  /\ server.pc = "shutdown"
  /\ server' = [server EXCEPT !.pc = "wait_connections"]
  /\ UNCHANGED <<config, server_state, protocols, outside_server>>

\* tick() calls shutdown() on every connection, then sleeps.
shutdown_connections ==
  /\ server.pc = "shutdown"
  /\ protocols' = [c \in Connections |->
                     IF c \in server_state.connections
                     THEN shutdown_connection(protocols[c]) ELSE protocols[c]]
  /\ server' = [server EXCEPT !.pc = "wait_connections"]
  /\ UNCHANGED <<config, server_state, outside_server>>

\* tick() leaves its wait for the connections.
wait_connections ==
  /\ server.pc = "wait_connections"
  /\ server_state.connections = {} \/ server.force_exit
  /\ server' = [server EXCEPT !.pc = "wait_tasks"]
  /\ UNCHANGED <<config, server_state, protocols, outside_server>>

\* tick() leaves its wait for the background tasks.
wait_tasks ==
  /\ server.pc = "wait_tasks"
  /\ server_state.tasks = {} \/ server.force_exit
  /\ server' = [server EXCEPT !.pc = "lifespan"]
  /\ UNCHANGED <<config, server_state, protocols, outside_server>>

\* tick() awaits lifespan.wait_shutdown(), or goes on to stop the loop.
lifespan_shutdown ==
  /\ server.pc = "lifespan"
  /\ server' = IF HandshakeWanted /\ ~server.force_exit
               THEN [server EXCEPT !.pc = "wait_shutdown",
                                   !.lifespan.phase = "ShutdownPending"]
               ELSE [server EXCEPT !.pc = "stop"]
  /\ UNCHANGED <<config, server_state, protocols, outside_server>>

\* The application answers lifespan.shutdown.
lifespan_shutdown_answer ==
  /\ LoopRuns /\ server.lifespan.phase = "ShutdownPending"
  /\ server' = [server EXCEPT !.lifespan.phase = "Closed"]
  /\ UNCHANGED <<config, server_state, protocols, outside_server>>

wait_shutdown_return ==
  /\ server.pc = "wait_shutdown" /\ server.lifespan.phase = "Closed"
  /\ server' = [server EXCEPT !.pc = "stop"]
  /\ UNCHANGED <<config, server_state, protocols, outside_server>>

\* loop.stop(): run_forever() and run() return.
loop_stop ==
  /\ server.pc = "stop"
  /\ server' = [server EXCEPT !.pc = "stopped"]
  /\ UNCHANGED <<config, server_state, protocols, outside_server>>

\* The listener accepts a connection.
protocol_connection_made(c) ==
  /\ LoopRuns /\ server.server = "listening"
  /\ protocols[c].st = "none"
  /\ protocols' = [protocols EXCEPT ![c].st = "idle"]
  /\ server_state' = [server_state EXCEPT !.connections = @ \cup {c}]
  /\ UNCHANGED <<config, server, outside_server>>

\* A request arrives on an idle connection: a cycle and its task start.
protocol_request(c) ==
  /\ LoopRuns /\ protocols[c].st = "idle"
  /\ protocols' = [protocols EXCEPT ![c].st = "active"]
  /\ server_state' = [server_state EXCEPT !.tasks = @ \cup {c}]
  /\ UNCHANGED <<config, server, outside_server>>

\* The cycle's response is complete: the connection stays open for the next
\* request or closes its transport.
protocol_response_complete(c) ==
  /\ LoopRuns /\ protocols[c].st = "active"
  /\ protocols' = [protocols EXCEPT
                     ![c].st = IF protocols[c].keep_alive THEN "idle"
                               ELSE "closing",
                     ![c].written = @ + 1]
  /\ server_state' = [server_state EXCEPT !.total_requests = @ + 1]
  /\ UNCHANGED <<config, server, outside_server>>

\* The cycle's task ends.
protocol_task_done(c) ==
  /\ LoopRuns /\ c \in server_state.tasks /\ protocols[c].st # "active"
  /\ server_state' = [server_state EXCEPT !.tasks = @ \ {c}]
  /\ UNCHANGED <<config, server, protocols, outside_server>>

\* connection_lost: the transport was closed, by the server or by the peer.
protocol_connection_lost(c) ==
  /\ LoopRuns /\ protocols[c].st \in {"idle", "active", "closing"}
  /\ protocols' = [protocols EXCEPT ![c].st = "closed"]
  /\ server_state' = [server_state EXCEPT !.connections = @ \ {c}]
  /\ UNCHANGED <<config, server, outside_server>>

ServerNext ==
  \/ run
  \/ \E complete \in BOOLEAN : lifespan_startup_answer(complete)
  \/ wait_startup_return
  \/ create_server
  \/ server.signals < MaxSignals /\ handle_exit
  \/ tick
  \/ tick_wake
  \/ server_close
  \/ shutdown_connections
  \/ wait_connections
  \/ wait_tasks
  \/ lifespan_shutdown
  \/ lifespan_shutdown_answer
  \/ wait_shutdown_return
  \/ loop_stop
  \/ \E c \in Connections : protocol_connection_made(c)
  \/ \E c \in Connections :
       ServerRequests < MaxServerRequests /\ protocol_request(c)
  \/ \E c \in Connections : protocol_response_complete(c)
  \/ \E c \in Connections : protocol_task_done(c)
  \/ \E c \in Connections : protocol_connection_lost(c)

ServerSpec == ServerInit /\ [][ServerNext]_vars

\* The loop runs every coroutine that can go on: run() and tick() take their
\* next step.  The application answers a lifespan message it was sent,
\* completes a response it has begun and ends its task, and a transport that
\* is closing is lost.  Signals, new connections and new requests may or may
\* not come.
ServerFairness ==
  /\ WF_vars(run) /\ WF_vars(wait_startup_return) /\ WF_vars(create_server)
  /\ WF_vars(tick) /\ WF_vars(tick_wake) /\ WF_vars(server_close)
  /\ WF_vars(shutdown_connections) /\ WF_vars(wait_connections)
  /\ WF_vars(wait_tasks) /\ WF_vars(lifespan_shutdown)
  /\ WF_vars(wait_shutdown_return) /\ WF_vars(loop_stop)
  /\ WF_vars(\E complete \in BOOLEAN : lifespan_startup_answer(complete))
  /\ WF_vars(lifespan_shutdown_answer)
  /\ \A c \in Connections :
       /\ WF_vars(protocol_response_complete(c))
       /\ WF_vars(protocol_task_done(c))
       /\ WF_vars(protocol_connection_lost(c))


\* The server with limit_max_requests configured, clients that open up to
\* LimitConnections connections, and no exit signal.
LimitConnections == 1

LimitInit == ServerInit /\ config.limit_max_requests # None

LimitNext ==
  \/ run
  \/ \E complete \in BOOLEAN : lifespan_startup_answer(complete)
  \/ wait_startup_return
  \/ create_server
  \/ tick
  \/ tick_wake
  \/ server_close
  \/ shutdown_connections
  \/ wait_connections
  \/ wait_tasks
  \/ lifespan_shutdown
  \/ lifespan_shutdown_answer
  \/ wait_shutdown_return
  \/ loop_stop
  \/ \E c \in 1..LimitConnections : protocol_connection_made(c)
  \/ \E c \in Connections :
       ServerRequests < MaxServerRequests /\ protocol_request(c)
  \/ \E c \in Connections : protocol_response_complete(c)
  \/ \E c \in Connections : protocol_task_done(c)
  \/ \E c \in Connections : protocol_connection_lost(c)

LimitSpec == LimitInit /\ [][LimitNext]_vars /\ ServerFairness

\* ------------------------------------------------------------ observation
WrittenBy(r) == SelectSeq(wire, LAMBDA w : w.by = r)

IsHead(w) == w.data[1] = "HTTP/1.1"
IsBody(w) == ~IsHead(w)

HeadsOf(r) == SelectSeq(WrittenBy(r), IsHead)

RECURSIVE Flatten(_)
Flatten(ws) == IF ws = <<>> THEN <<>> ELSE Head(ws).data \o Flatten(Tail(ws))

\* The bytes request r's task wrote after or outside a response head.
BodyBytesOf(r) == Flatten(SelectSeq(WrittenBy(r), IsBody))

\* The values a head carries for a header name.
HeaderValues(w, name) ==
  {w.data[k + 2] : k \in {j \in 1..(Len(w.data) - 2) :
                            Lower(w.data[j]) = name /\ w.data[j + 1] = ": "}}

StatusOf(w) == w.data[2]

EndsWith(s, t) ==
  Len(s) >= Len(t) /\ SubSeq(s, Len(s) - Len(t) + 1, Len(s)) = t

\* The task of request r has sent a message carrying a status.
Started(r) == \E k \in 1..task[r].pc : app[k].status # None

Dispatched(r) == task[r].st \in {"running", "draining"}

\* C1: responses are written in request order: every byte of the response
\* to request i is written before any byte of the response to a later
\* request j > i.
C1_ResponsesInRequestOrder ==
  \A p, q \in 1..Len(wire) :
    (p < q /\ wire[p].by # 0 /\ wire[q].by # 0) => wire[p].by <= wire[q].by

\* C2: at every moment at most one request cycle is active, that is at most
\* one dispatched application task has a response that is not yet complete.
C2_AtMostOneActiveCycle ==
  Cardinality({r \in Requests : Dispatched(r) /\ ~task[r].complete}) <= 1

\* The task of request r has sent a whole response in the allowed order, a
\* start first and a message with more_body false last, and completed.
SentWholeResponse(r) ==
  /\ task[r].complete /\ Dispatched(r) /\ transport # "lost"
  /\ task[r].pc >= 1
  /\ app[1].status # None
  /\ ~app[task[r].pc].more_content
  /\ \A k \in 2..task[r].pc : app[k].status = None
  /\ \A k \in 2..(task[r].pc - 1) : app[k].more_content

\* C3: every request cycle that completes has written exactly one status
\* line, and its body either has the length the content-length header on the
\* wire gives, or is chunked and ends with the terminator 0 CRLF CRLF, also
\* when the application supplied transfer-encoding: chunked itself.
C3_OneStatusLineAndFramedBody ==
  \A r \in Requests :
    SentWholeResponse(r) =>
      /\ Len(HeadsOf(r)) = 1
      /\ LET h == HeadsOf(r)[1]
             body == BodyBytesOf(r)
         IN \/ /\ HeaderValues(h, "transfer-encoding") = {}
               /\ HeaderValues(h, "content-length") = {Str(Len(body))}
            \/ /\ "chunked" \in HeaderValues(h, "transfer-encoding")
               /\ EndsWith(body, <<"0", CRLF, CRLF>>)

\* Message k of the application is one the phase table does not allow after
\* the response head: a second start, or anything after a body message with
\* more_body false.
NotAllowedAfterHead(k) ==
  /\ \E j \in 1..(k - 1) : app[j].status # None
  /\ \/ app[k].status # None
     \/ \E j \in 1..(k - 1) : app[j].status = None /\ ~app[j].more_content

SendReturns(r) == Dispatched(r) /\ task'[r].pc = task[r].pc + 1

\* C4: after the response head has been sent, a send the phase table does not
\* allow writes no further bytes, leaves total_requests and the pending queue
\* unchanged, and the connection is closed.
C4_DisallowedSendRejected ==
  [][\A r \in Requests :
       (transport = "open" /\ SendReturns(r) /\ NotAllowedAfterHead(task[r].pc + 1))
         => /\ wire' = wire
            /\ total_requests' = total_requests
            /\ pipeline_queue' = pipeline_queue
            /\ transport' = "closed"]_vars

Is500(w) == IsHead(w) /\ StatusOf(w) = "500"

\* C5: when the application task ends without having sent a start, or sends
\* a body before any start, the server writes a 500 response with an empty
\* body and closes the connection.
C5_NoStartGives500 ==
  [][\A r \in Requests :
       (/\ transport = "open" /\ Dispatched(r) /\ ~Started(r)
        /\ \/ task'[r].st = "done"
           \/ SendReturns(r) /\ app[task[r].pc + 1].status = None)
         => /\ Len(wire') = Len(wire) + 1
            /\ Is500(wire'[Len(wire')])
            /\ HeaderValues(wire'[Len(wire')], "content-length") = {"0"}
            /\ transport' = "closed"]_vars

\* C6: when the application task ends after its start was sent and before
\* any message with more_body false, the connection is closed, with no 500
\* response and no chunked terminator written.
C6_PartialResponseClosesConnection ==
  [][\A r \in Requests :
       (/\ transport = "open" /\ Dispatched(r) /\ Started(r)
        /\ \A k \in 1..task[r].pc : app[k].more_content
        /\ task'[r].st = "done")
         => /\ wire' = wire
            /\ transport' = "closed"]_vars

\* C7: total_requests equals the number of request cycles that reached
\* Complete, whatever the application sends before or after completion (the
\* code writes no 500 or 503 of its own).
C7_TotalRequestsCountsCompleteCycles ==
  total_requests = Cardinality({r \in Requests : task[r].complete})

\* The only request so far is request 1, a keep-alive request, and the
\* client has not gone away.
OnlyRequestOne == parser.cur = 1 /\ parser.keep_alive /\ transport # "lost"

\* C8: start {200, no headers} then one body {'Hello', more_body false} puts
\* on the wire one head with content-length: 5 and no transfer-encoding,
\* then exactly the 5 body bytes, and the connection stays open.
C8_SingleBodyGetsContentLength ==
  (app = AppHello /\ OnlyRequestOne /\ task[1].st = "running" /\ task[1].pc = 2)
    => /\ Len(HeadsOf(1)) = 1
       /\ HeaderValues(HeadsOf(1)[1], "content-length") = {"5"}
       /\ HeaderValues(HeadsOf(1)[1], "transfer-encoding") = {}
       /\ BodyBytesOf(1) = Hello
       /\ transport = "open"

\* C9: with no content-length header and more than one body message the
\* server inserts transfer-encoding: chunked, writes each body as
\* <hex-len> CRLF <bytes> CRLF in send order and the terminator 0 CRLF CRLF
\* once, after the body with more_body false.
C9_StreamedBodyIsChunked ==
  (app = AppStream /\ OnlyRequestOne /\ task[1].st = "running" /\ task[1].pc = 3)
    => /\ Len(HeadsOf(1)) = 1
       /\ HeaderValues(HeadsOf(1)[1], "transfer-encoding") = {"chunked"}
       /\ HeaderValues(HeadsOf(1)[1], "content-length") = {}
       /\ BodyBytesOf(1) = <<"2", CRLF, "a", "b", CRLF, "2", CRLF, "c", "d", CRLF,
                             "0", CRLF, CRLF>>

\* The content-length the application declared in its start message.
Declared(k) ==
  {app[k].headers[j][2] : j \in {i \in 1..Len(app[k].headers) :
                                    Lower(app[k].headers[i][1]) = "content-length"}}

\* C10: when the application declares content-length: n, the body bytes
\* written for the cycle never exceed n.
C10_BodyWithinDeclaredLength ==
  \A r \in Requests : \A k \in 1..task[r].pc : \A n \in 0..9 :
    Str(n) \in Declared(k) => Len(BodyBytesOf(r)) <= n

\* ------------------------------------------------- keep-alive and closing
\* The application's messages form one response in the allowed order: the
\* first carries the status, no later one does, and only the last has
\* more_body false.
WellOrdered ==
  /\ Len(app) >= 1
  /\ app[1].status # None
  /\ ~app[Len(app)].more_content
  /\ \A k \in 2..Len(app) : app[k].status = None
  /\ \A k \in 2..(Len(app) - 1) : app[k].more_content

\* The response of request r, up to the message being sent, carries
\* connection: close.
ResponseSaysClose(r) ==
  \E k \in 1..(task[r].pc + 1) :
    k <= Len(app) /\ app[k].status # None /\ SeenConnectionClose(app[k].headers)

\* The step completes the cycle of request r.
Completes(r) == ~task[r].complete /\ task'[r].complete

\* C11: after a cycle completes the connection stays open when keep_alive
\* holds (the request asks for keep-alive and the response carries no
\* connection: close); it is closed right after the final body, and not
\* before it, when the response carries connection: close or the request
\* does not ask for keep-alive.
C11_KeepAliveOrCloseAfterFinalBody ==
  [][\A r \in Requests :
       (WellOrdered /\ transport = "open" /\ SendReturns(r))
         => /\ (task[r].pc + 1 < Len(app)) => transport' = "open"
            /\ (task[r].pc + 1 = Len(app)) =>
                 (transport' = "closed"
                    <=> (~request[r].keep_alive \/ ResponseSaysClose(r)))]_vars

\* C12: the server closes the socket only in a step that completes a cycle
\* whose keep_alive is false, and the close decision of a completing cycle
\* uses that cycle's own keep_alive, whatever requests were parsed after it.
\* It is stated for an application that answers every request with one
\* complete message, so that no step of it depends on how a response in
\* several messages is taken.
C12_CloseUsesOwnKeepAlive ==
  [][(WellOrdered /\ Len(app) = 1) =>
       /\ (transport = "open" /\ transport' = "closed")
            => \E r \in Requests :
                 Completes(r) /\ (~request[r].keep_alive \/ ResponseSaysClose(r))
       /\ \A r \in Requests :
            (transport = "open" /\ Completes(r)
               /\ request[r].keep_alive /\ ~ResponseSaysClose(r))
              => transport' = "open"]_vars

\* ------------------------------------------------------ the body channel
\* C14: receive() returns once no more request data can arrive for the
\* cycle: with the client connection lost, or with the cycle's response
\* complete, a receive() of the task of a request with a body is not left
\* waiting on an empty queue.
C14_ReceiveReturnsAfterDisconnect ==
  \A r \in Requests :
    (/\ ~feeding /\ task[r].st = "running" /\ channels[r].body
     /\ transport = "lost" \/ task[r].complete)
      => ENABLED (receive(r) /\ Unobserved)

RECURSIVE Join(_)
Join(chunks) == IF chunks = <<>> THEN <<>> ELSE Head(chunks) \o Join(Tail(chunks))

\* The contents of the messages receive() returned to the task of request r.
ReceivedContents(r) == [k \in 1..Len(received[r]) |-> received[r][k].content]

\* The task of request r has been given a message with more_body false.
ReceivedAll(r) ==
  received[r] # <<>> /\ ~received[r][Len(received[r])].more_content

C17_EarlyResponseDiscardsBody ==
  [][/\ (/\ feeding /\ parser.pos = "body" /\ parser' # parser
         /\ task[parser.cur].complete)
          => /\ buffer_size' = buffer_size
             /\ channels'[parser.cur].queue = <<>>
             /\ task' = task
             /\ active_request' = active_request
             /\ pipeline_queue' = pipeline_queue
             /\ read_paused' = read_paused
             /\ transport' = transport
     /\ \A r \in Requests :
          (/\ Completes(r) /\ r = parser.cur /\ parser.pos = "body"
           /\ transport = "open"
           /\ request[r].keep_alive /\ ~ResponseSaysClose(r))
            => transport' = "open"]_vars

\* Body bytes of the request being parsed have been fed after its response
\* was completed, and the connection is open with nothing buffered.
C17_Witness ==
  /\ feeding /\ fed > 0
  /\ task[parser.cur].complete
  /\ transport = "open" /\ buffer_size = 0

\* C16: the pending queue never holds more than max_pipelined_requests
\* requests, however many complete requests one data_received call carries.
C16_PendingWithinLimit ==
  Len(pipeline_queue) <= max_pipelined_requests

\* ------------------------------------------------- expect: 100-continue
Continue == <<"HTTP/1.1", "100", "Continue", CRLF, CRLF>>

IsContinue(w) == w.data = Continue

\* The step is on_header for the header line h.
SeesHeader(h) == headers' = Append(headers, <<Lower(h[1]), h[2]>>)

IsExpectContinue(h) == Lower(h[1]) = "expect" /\ Lower(h[2]) = "100-continue"

\* The application has not been dispatched for the request being parsed.
NotDispatched ==
  /\ task[parser.cur].st = "none"
  /\ \A k \in 1..Len(pipeline_queue) : pipeline_queue[k] # parser.cur

\* C18 as stated: for a request whose headers contain expect: 100-continue
\* the server writes HTTP/1.1 100 Continue exactly once: as many interim
\* responses are on the wire as requests have asked for one.
C18_ContinueWrittenOnce ==
  Len(SelectSeq(wire, IsContinue)) =
    Cardinality({r \in Requests : request[r].expect})

\* C18 as amended: for every expect: 100-continue header line the server
\* writes HTTP/1.1 100 Continue once, in the on_header call that sees the
\* line and before the application is dispatched for the request; no other
\* step writes one.
C18_ContinuePerExpectLine ==
  [][/\ \A h \in ExpectRequestHeaders :
          (feeding /\ parser.pos = "headers" /\ SeesHeader(h) /\ IsExpectContinue(h))
            => /\ wire' = Append(wire, Write(0, Continue))
               /\ NotDispatched
     /\ (Len(wire') > Len(wire) /\ \E k \in (Len(wire) + 1)..Len(wire') :
                                       IsContinue(wire'[k]))
          => /\ Len(wire') = Len(wire) + 1
             /\ \E h \in ExpectRequestHeaders : SeesHeader(h) /\ IsExpectContinue(h)]_vars

\* A request that asked for it was sent the interim response and its
\* application was dispatched afterwards.
C18_Witness ==
  \E r \in Requests :
    /\ request[r].expect /\ task[r].st = "running"
    /\ \E k \in 1..Len(wire) : IsContinue(wire[k])

\* ------------------------------------------------------------ LifespanOn
\* The application has sent nothing so far.
NoAnswer == \A k \in 1..pc.app : lifespan_app[k] = "receive"

\* The application's first send was lifespan.startup.failed.
AnsweredFailed ==
  \E k \in 1..pc.app :
    /\ lifespan_app[k] = "lifespan.startup.failed"
    /\ \A j \in 1..(k - 1) : lifespan_app[j] = "receive"

RaisedBeforeAnswer == pc.main = "raised" /\ NoAnswer

\* C19: startup() returns with error_occured and should_exit both true when
\* the application answers with lifespan.startup.failed, in auto and in on
\* mode, and when it raises before answering in on mode.
C19_StartupFailureExits ==
  (/\ pc.startup = "returned"
   /\ AnsweredFailed \/ (lifespan = "on" /\ RaisedBeforeAnswer))
    => error_occured /\ should_exit

\* In auto mode the application answered lifespan.startup with
\* lifespan.startup.failed and startup() has returned.
C19_Witness ==
  /\ lifespan = "auto" /\ pc.startup = "returned"
  /\ AnsweredFailed /\ pc.app >= 2
  /\ error_occured /\ should_exit

\* C20: in auto mode, when the application raises before answering,
\* startup() returns with error_occured true and should_exit false, and
\* shutdown() returns without queuing lifespan.shutdown or waiting.
C20_AutoUnsupportedContinues ==
  (lifespan = "auto" /\ RaisedBeforeAnswer)
    => /\ pc.startup = "returned" => (error_occured /\ ~should_exit)
       /\ pc.shutdown # "waiting"
       /\ \A k \in 1..Len(receive_queue) : receive_queue[k] # "lifespan.shutdown"

\* In auto mode the application raised before answering, and startup() and
\* then shutdown() have returned.
C20_Witness ==
  /\ lifespan = "auto" /\ RaisedBeforeAnswer
  /\ pc.startup = "returned" /\ pc.shutdown = "returned"
  /\ error_occured /\ ~should_exit

\* The send calls of the application that have returned.
Sent(type) == \E k \in 1..pc.app : lifespan_app[k] = type

\* The receive calls of the application that have returned.
Receives == Cardinality({k \in 1..pc.app : lifespan_app[k] = "receive"})

\* The lifespan.shutdown messages put on receive_queue so far: those still
\* in it, and those received (startup() queues the one message before them).
QueuedShutdowns ==
  Len(SelectSeq(receive_queue, LAMBDA m : m = "lifespan.shutdown"))
    + (IF Receives > 1 THEN Receives - 1 ELSE 0)

ShutdownAnswers == {"lifespan.shutdown.complete", "lifespan.shutdown.failed"}

\* The application follows the protocol: it receives lifespan.startup,
\* answers lifespan.startup.complete, receives again and answers that
\* message with one of the two shutdown answers.
AnswersShutdown ==
  /\ Len(lifespan_app) = 4
  /\ lifespan_app[1] = "receive"
  /\ lifespan_app[2] = "lifespan.startup.complete"
  /\ lifespan_app[3] = "receive"
  /\ lifespan_app[4] \in ShutdownAnswers

\* C21: with an application that answers lifespan.shutdown with
\* lifespan.shutdown.complete or lifespan.shutdown.failed, shutdown() after
\* a successful startup queues exactly one lifespan.shutdown message, the
\* answer is accepted (main() does not end by an exception), and shutdown()
\* has returned only when the send of the answer has returned.
C21_ShutdownAwaitsAnswer ==
  AnswersShutdown =>
    /\ QueuedShutdowns <= 1
    /\ pc.main # "raised"
    /\ pc.shutdown = "returned" =>
         QueuedShutdowns = 1 /\ Sent(lifespan_app[4])

\* ---------------------------------------------------------------- Server
\* The startup handshake has completed with lifespan.startup.complete.
Ready ==
  /\ server.lifespan.phase \in {"Ready", "ShutdownPending", "Closed"}
  /\ ~server.lifespan.error_occured

Accepted(c) == protocols[c].st # "none"

\* C22: when the server runs a lifespan handshake, the listener exists and a
\* connection has been accepted only when the handshake has completed; after
\* a failed startup there is no listener; and the shutdown exchange has begun
\* only when no connection is live.
C22_LifespanBracketsConnections ==
  /\ (/\ HandshakeWanted
      /\ server.server # "none" \/ \E c \in Connections : Accepted(c))
       => Ready
  /\ server.lifespan.error_occured
       => server.server = "none" /\ \A c \in Connections : ~Accepted(c)
  /\ server.lifespan.phase = "ShutdownPending" => server_state.connections = {}

\* The shutdown exchange is under way after a connection was accepted, served
\* a request and closed.
C22_Witness ==
  /\ server.lifespan.phase = "ShutdownPending"
  /\ \E c \in Connections : protocols[c].st = "closed" /\ protocols[c].written > 0

Told(c) == protocols[c].told

\* No connection is accepted in a step.
NoneAccepted == \A c \in Connections : Accepted(c)' => Accepted(c)

\* tick() has got past its calls of connection.shutdown().
PastShutdown ==
  server.pc \in {"wait_connections", "wait_tasks", "lifespan", "wait_shutdown",
                 "stop", "stopped"}

\* The listener is closed before any connection is told to shut down, and
\* when tick() has made its calls every live connection has been told.
ListenerClosedThenTold ==
  /\ \A c \in Connections : Told(c) => server.server = "closed"
  /\ PastShutdown => \A c \in server_state.connections : Told(c)

\* A connection told to shut down with an active cycle takes no further
\* request and closes its transport in the step that completes the response;
\* an idle one closes its transport in the step that tells it, and writes
\* nothing.
ToldConnectionsClose ==
  \A c \in Connections :
    /\ (Told(c) /\ protocols[c].st = "active")
         => /\ protocols[c].st' # "idle"
            /\ protocols[c].st' = "closing"
                 => protocols[c].written' = protocols[c].written + 1
    /\ (~Told(c) /\ Told(c)' /\ protocols[c].st = "idle")
         => protocols[c].st' = "closing" /\ UNCHANGED protocols[c].written
    /\ (Told(c) /\ protocols[c].st \in {"closing", "closed"})
         => UNCHANGED protocols[c].written

\* C23: from the moment should_exit is set no connection is accepted; the
\* listener is closed before any connection is told to shut down; a
\* connection with an active cycle completes its response and is then
\* closed, an idle one is closed at once with nothing written.
C23_NoAcceptAfterShouldExit ==
  /\ []ListenerClosedThenTold
  /\ [][/\ server.should_exit => NoneAccepted
        /\ ToldConnectionsClose]_vars

\* C23 as amended: no connection is accepted from the moment tick() has
\* closed the listener (one may be accepted between the signal and tick()'s
\* next test of should_exit); the rest as stated.
C23_NoAcceptAfterListenerClosed ==
  /\ []ListenerClosedThenTold
  /\ [][/\ server.server = "closed" => NoneAccepted
        /\ ToldConnectionsClose]_vars

\* After an exit signal one connection, told to shut down while its cycle
\* was active, has written its response and is closed, and another, told
\* while idle, is closed with nothing written.
C23_Witness ==
  /\ server.should_exit /\ PastShutdown
  /\ \E c \in Connections :
       Told(c) /\ protocols[c].st = "closed" /\ protocols[c].written = 1
  /\ \E c \in Connections :
       Told(c) /\ protocols[c].st = "closed" /\ protocols[c].written = 0

\* C24: when the server has stopped after force_exit, no connection's socket
\* is still open and no task of a connection is left.
C24_ForceExitClosesConnections ==
  (server.pc = "stopped" /\ server.force_exit)
    => /\ \A c \in Connections : protocols[c].st \notin {"idle", "active"}
       /\ server_state.tasks = {}

C26_SignalsSetFlagsInOrder ==
  /\ [](/\ server.signals = 0 => ~server.should_exit /\ ~server.force_exit
        /\ server.signals = 1 => server.should_exit /\ ~server.force_exit
        /\ server.signals >= 2 => server.force_exit
        /\ server.force_exit => server.should_exit)
  /\ [][/\ server.should_exit => server.should_exit'
        /\ server.force_exit => server.force_exit']_vars

\* Two signals have come and the server has gone on to stop.
C26_Witness ==
  /\ server.signals = 2 /\ server.should_exit /\ server.force_exit
  /\ server.pc = "stopped"

\* ------------------------------------------------------- keep-alive time
\* C27: a connection that has been idle between requests for
\* timeout_keep_alive seconds is no longer open, and the server closes an
\* idle connection only then, without writing.
C27_IdleConnectionTimesOut ==
  /\ [](IdleBetweenRequests => idle_time < config.timeout_keep_alive)
  /\ [][(IdleBetweenRequests /\ transport' = "closed")
          => idle_time >= config.timeout_keep_alive /\ UNCHANGED wire]_vars

\* ----------------------------------------------------- limit_concurrency
\* The cycles of the connection that are active or pending.
CyclesInFlight ==
  (IF active_request = None THEN 0 ELSE 1) + Len(pipeline_queue)

OverLimit ==
  config.limit_concurrency # None /\ CyclesInFlight > config.limit_concurrency

Is503Close(w) ==
  /\ IsHead(w) /\ StatusOf(w) = "503"
  /\ \E v \in HeaderValues(w, "connection") : Lower(v) = "close"

\* C28: while the active and pending cycles exceed limit_concurrency, a step
\* dispatches no further request (nothing is added to the active and pending
\* cycles), and the step that ends the parsing of a request not dispatched
\* before writes a 503 response with connection: close.
C28_OverLimitAnswers503 ==
  [][OverLimit =>
       /\ CyclesInFlight' <= CyclesInFlight
       /\ (parser.pos \notin {"idle", "begun"} /\ parser.pos' = "idle"
           /\ NotDispatched)
            => /\ Len(wire') > Len(wire)
               /\ Is503Close(wire'[Len(wire) + 1])]_vars

\* ------------------------------------------------------------ parse error
\* C29: once the parser has rejected the received bytes the connection is
\* not open; a 400 response is written only as the first thing on the
\* connection; and the application was not dispatched for the request in
\* whose bytes the error is.
C29_ParseErrorCloses ==
  /\ [](/\ parser.pos = "error" => transport # "open"
        /\ \A k \in 1..Len(wire) :
             (IsHead(wire[k]) /\ StatusOf(wire[k]) = "400") => k = 1)
  /\ [][(parser.pos \notin {"idle", "error"} /\ parser.pos' = "error")
          => NotDispatched]_vars

\* -------------------------------------------------------------- websocket
\* What a call of the websocket reply channel's send added to the wire and
\* to the frames of the codec.
NewWrites == SubSeq(wire', Len(wire) + 1, Len(wire'))
NewFrames ==
  SubSeq(websocket'.frames, Len(websocket.frames) + 1, Len(websocket'.frames))

SwitchingProtocols ==
  <<"HTTP/1.1", "101", "Switching Protocols", CRLF,
    "Upgrade", ": ", "WebSocket", CRLF,
    "Connection", ": ", "Upgrade", CRLF,
    "Sec-WebSocket-Accept", ": ",
    AcceptOf(get_header(headers, "sec-websocket-key")), CRLF, CRLF>>

Forbidden == <<"HTTP/1.1", "403", "Forbidden", CRLF, CRLF>>

\* C30: on an upgraded connection a message that accepts writes 101
\* Switching Protocols with the headers the handshake negotiated; a message
\* that closes writes 403 and closes the transport when the connection is
\* not accepted, and when it is accepted sends a close frame whose code is
\* the one the application gave, 1000 if it gave none.
C30_AcceptAndClose ==
  [][websocket'.sends # websocket.sends =>
       LET m == websocket'.message
       IN /\ (m.accept = PyTrue /\ ~websocket.accepted) =>
               /\ websocket'.accepted
               /\ NewWrites # <<>>
               /\ NewWrites[1].data = SwitchingProtocols
          /\ (Truthy(m.close) /\ ~websocket'.accepted) =>
               /\ NewWrites # <<>>
               /\ NewWrites[Len(NewWrites)].data = Forbidden
               /\ transport' = "closed"
               /\ NewFrames = <<>>
          /\ (Truthy(m.close) /\ websocket'.accepted) =>
               /\ NewFrames # <<>>
               /\ NewFrames[Len(NewFrames)] =
                    [opcode |-> "close",
                     payload |-> IF m.close = PyTrue THEN "1000" ELSE m.close]
               /\ transport' = transport
               /\ \A k \in 1..Len(NewWrites) : NewWrites[k].data # Forbidden]_vars

\* The application accepted the connection and later closed it with a code
\* of its own.
C30_Witness ==
  /\ websocket.accepted
  /\ websocket.message.close = "1001"
  /\ websocket.frames # <<>>
  /\ websocket.frames[Len(websocket.frames)] =
       [opcode |-> "close", payload |-> "1001"]
  /\ \E k \in 1..Len(wire) : wire[k].data[2] = "101"

\* What the application has seen on the upgraded connection.
Seen == websocket.consumed

AsMessage(frame, order) ==
  [channel |-> "websocket.receive", order |-> order,
   text |-> IF frame.opcode = "text" THEN frame.payload ELSE PyNone,
   bytes |-> IF frame.opcode = "binary" THEN frame.payload ELSE PyNone,
   code |-> PyNone]

\* C31: on an upgraded connection the application sees websocket.connect
\* first; every later message is the frame that arrived earliest among
\* those it has not seen, as a websocket.receive; a websocket.disconnect is
\* seen at most once, as the last message and with the client's close
\* code; and once the client has closed an accepted connection the
\* disconnect is seen.
C31_ConnectReceiveDisconnect ==
  /\ [](/\ Seen # <<>> => Seen[1].channel = "websocket.connect"
        /\ \A k \in 1..Len(Seen) :
             /\ Seen[k].order = k - 1
             /\ k > 1 => Seen[k].channel # "websocket.connect"
             /\ Seen[k].channel = "websocket.disconnect" =>
                  /\ k = Len(Seen)
                  /\ Seen[k].code = websocket.close_code)
  /\ [][/\ Len(Seen') >= Len(Seen)
        /\ SubSeq(Seen', 1, Len(Seen)) = Seen
        /\ Len(Seen') <= Len(Seen) + 1
        /\ (Len(Seen') = Len(Seen) + 1 /\ Seen # <<>>
              /\ Seen'[Len(Seen')].channel # "websocket.disconnect") =>
             /\ websocket.inbound # <<>>
             /\ Seen'[Len(Seen')] = AsMessage(Head(websocket.inbound), Len(Seen))
             /\ websocket'.inbound = Tail(websocket.inbound)
        /\ (Len(Seen') = Len(Seen) + 1
              /\ Seen'[Len(Seen')].channel = "websocket.disconnect") =>
             websocket.inbound = <<>>
        /\ (Len(Seen') = Len(Seen) /\ websocket.inbound # <<>>) =>
             /\ Len(websocket'.inbound) >= Len(websocket.inbound)
             /\ SubSeq(websocket'.inbound, 1, Len(websocket.inbound))
                  = websocket.inbound]_vars
  /\ (websocket.accepted /\ websocket.close_code # PyNone) ~> Disconnected

\* The application has seen connect, two frames in their order of arrival
\* and the disconnect with the client's code 1001.
C31_Witness ==
  /\ Len(Seen) = 4
  /\ Seen[2].text = "a"
  /\ Seen[3].bytes = "b"
  /\ Seen[4].channel = "websocket.disconnect"
  /\ Seen[4].code = "1001"

HandshakeResponses ==
  {k \in 1..Len(wire) : wire[k].data[2] \in {"101", "403"}}

\* C38: on an upgraded connection at most one handshake response, 101 or
\* 403, is written, and the 403 that closes the transport is the last
\* write made on it.
C38_OneHandshakeResponse ==
  /\ Cardinality(HandshakeResponses) <= 1
  /\ \A k \in 1..Len(wire) : wire[k].data = Forbidden => k = Len(wire)

C35_NoWriteAfterClose ==
  [][transport # "open" =>
       /\ wire' = wire
       /\ active_request' = active_request
       /\ pipeline_queue' = pipeline_queue
       /\ total_requests' = total_requests]_vars

\* ------------------------------------------------------------ flow control
\* C33: on a live connection reading that is not paused has buffer_size at
\* most the high water limit and fewer pending requests than
\* max_pipelined_requests; reading that is paused has buffer_size at least
\* the low water limit or that many pending requests; and the transport is
\* paused only when it reads and resumed only when it is paused.
C33_ReadPausedMatchesLimits ==
  /\ [](transport = "open" =>
          /\ ~read_paused =>
               /\ buffer_size <= high_water_limit
               /\ Len(pipeline_queue) < max_pipelined_requests
          /\ read_paused =>
               \/ buffer_size >= low_water_limit
               \/ Len(pipeline_queue) >= max_pipelined_requests)
  /\ [][/\ (~read_paused /\ read_paused') =>
             /\ transport = "open"
             /\ \/ buffer_size' > high_water_limit
                \/ Len(pipeline_queue') >= max_pipelined_requests
        /\ (read_paused /\ ~read_paused') =>
             /\ transport = "open"
             /\ buffer_size' < low_water_limit
             /\ Len(pipeline_queue') < max_pipelined_requests]_vars

\* Reading was paused for the bytes buffered while no request is pending.
C33_Witness ==
  /\ transport = "open" /\ read_paused
  /\ buffer_size > high_water_limit
  /\ pipeline_queue = <<>>

\* The cycles of the connection: the active one and the pending ones.
Cycles ==
  (IF active_request = None THEN {} ELSE {active_request})
    \cup {pipeline_queue[k] : k \in 1..Len(pipeline_queue)}

RECURSIVE QueuedIn(_, _)
QueuedIn(n, rs) ==
  IF n = 0 THEN 0
  ELSE (IF n \in rs THEN QueuedBytes(channels[n].queue) ELSE 0) + QueuedIn(n - 1, rs)

\* C34: buffer_size is the sum of the content lengths of the body messages
\* queued in the body channels of the active and the pending cycles; it is
\* never negative and it is 0 when those queues are empty.
C34_BufferSizeIsQueuedBytes ==
  /\ buffer_size = QueuedIn(MaxRequests, Cycles)
  /\ buffer_size >= 0
  /\ (\A r \in Cycles : channels[r].queue = <<>>) => buffer_size = 0

\* Body bytes are queued for the active cycle and for a pending one after
\* the application has taken a message.
C34_Witness ==
  /\ active_request # None /\ pipeline_queue # <<>>
  /\ channels[active_request].queue # <<>>
  /\ channels[pipeline_queue[1]].queue # <<>>
  /\ received[active_request] # <<>>
  /\ buffer_size >= 2

\* ------------------------------------------------------- upgrade header
\* C36: the upgrade marker is per request: when a request whose headers
\* hold no upgrade header completes, the application is dispatched for it
\* or it is queued as pending, whatever the requests before it carried.
C36_UpgradeMarkerPerRequest ==
  [][(/\ parser.pos \in {"headers", "body"} /\ parser.pos' = "idle"
      /\ \A k \in 1..Len(headers) : headers[k][1] # "upgrade")
       => \/ task'[parser.cur].st # "none"
          \/ \E k \in 1..Len(pipeline_queue') : pipeline_queue'[k] = parser.cur]_vars

\* ------------------------------------------------------------ LifespanOn
\* The application's call of send returns or raises into the application,
\* which goes on to its next step.
SendStep ==
  /\ pc.main = "running" /\ pc'.main = "running"
  /\ pc'.app = pc.app + 1
  /\ NextStep \notin {"receive", "raise", "return"}

Events == <<startup_event, shutdown_event, error_occured, should_exit>>

\* C37: shutdown_event set implies startup_event set; no event is ever
\* cleared; a startup message sets startup_event when neither event is
\* set, a lifespan.shutdown.complete sets shutdown_event when startup_event
\* is set and shutdown_event is not, and every other send is rejected and
\* leaves startup_event, shutdown_event, error_occured and should_exit as
\* they are.
C37_EventsMoveOnce ==
  /\ [](shutdown_event => startup_event)
  /\ [][/\ startup_event => startup_event'
        /\ shutdown_event => shutdown_event'
        /\ SendStep =>
             IF NextStep \in {"lifespan.startup.complete", "lifespan.startup.failed"}
                  /\ ~startup_event /\ ~shutdown_event
             THEN startup_event' /\ ~shutdown_event'
             ELSE IF NextStep = "lifespan.shutdown.complete"
                       /\ startup_event /\ ~shutdown_event
             THEN shutdown_event' /\ startup_event'
                    /\ error_occured' = error_occured
                    /\ should_exit' = should_exit
             ELSE Events' = Events]_vars

\* The application answered the startup, had a second
\* lifespan.startup.complete rejected and went on: the events are as the
\* first answer left them.
C37_Witness ==
  /\ pc.main = "running" /\ pc.app = 3
  /\ lifespan_app[1] = "receive"
  /\ lifespan_app[2] = "lifespan.startup.complete"
  /\ lifespan_app[3] = "lifespan.startup.complete"
  /\ startup_event /\ ~shutdown_event /\ ~error_occured /\ ~should_exit

\* ---------------------------------------------------------------------
\* starlette/middleware/cors.py: CORSMiddleware around an application.
\* A message is the dict passed to send: has_headers tells whether it has
\* a "headers" key, headers is the list under that key.
\* ---------------------------------------------------------------------
MaxAppMessages == 3

Origins == {"https://a.org", "https://b.org"}
AllowOrigins == {<<>>, <<"*">>, <<"https://a.org">>}
Methods == {"GET", "OPTIONS"}

InSeq(x, seq) == \E i \in 1..Len(seq) : seq[i] = x

AsgiMessage(type, has_headers, hs, body) ==
  [type |-> type, has_headers |-> has_headers, headers |-> hs, body |-> body]

HeadedStart == AsgiMessage("http.response.start", TRUE,
                         <<<<"content-type", "text/plain">>>>, "")
PlainStart == AsgiMessage("http.response.start", FALSE, <<>>, "")
BodyMessage(body) == AsgiMessage("http.response.body", FALSE, <<>>, body)

\* What the wrapped application sends, in order.
AppMessages ==
  {<<HeadedStart, BodyMessage("hi")>>,
   <<PlainStart, BodyMessage("h"), BodyMessage("i")>>,
   <<HeadedStart, BodyMessage("")>>}

\* MutableHeaders.__setitem__: the items of that name are dropped and the
\* new item is appended.
SetItem(hs, name, value) ==
  Append(SelectSeq(hs, LAMBDA h : h[1] # name), <<name, value>>)

RECURSIVE Update(_, _)
Update(hs, items) ==
  IF items = <<>> THEN hs
  ELSE Update(SetItem(hs, Head(items)[1], Head(items)[2]), Tail(items))

\* CORSMiddleware.__init__: the headers of every simple response.
SimpleHeaders(allow_origins, allow_credentials) ==
  (IF InSeq("*", allow_origins)
   THEN <<<<"access-control-allow-origin", "*">>>> ELSE <<>>)
  \o (IF allow_credentials
      THEN <<<<"access-control-allow-credentials", "true">>>> ELSE <<>>)

Middleware(allow_origins, allow_credentials) ==
  [NoCall EXCEPT !.allow_origins = allow_origins,
                 !.simple_headers =
                   SimpleHeaders(allow_origins, allow_credentials)]

CorsInit ==
  /\ app \in {AppSingle}
  /\ ProtocolInit
  /\ DefaultLimits
  /\ NoLifespan
  /\ NoServer

outside_cors ==
  <<app, transport, wire, read_paused, write_paused, buffer_size,
    active_request, pipeline_queue, total_requests, use_chunked_encoding,
    should_keep_alive, parser, feeding, headers, upgrade, channels, task,
    high_water_limit, low_water_limit, max_pipelined_requests, request,
    received, fed, lifespan_vars, server_vars, websocket, idle_time, session>>

\* add_middleware(CORSMiddleware, ...): the middleware is constructed.
cors_init(allow_origins, allow_credentials) ==
  /\ cors = NoCall
  /\ cors' = [Middleware(allow_origins, allow_credentials)
                EXCEPT !.st = "ready"]
  /\ UNCHANGED outside_cors

\* CORSMiddleware.__call__ for an http scope: origin is PyNone when the
\* request has no Origin header, preflight tells whether it has an
\* access-control-request-method header.
cors_call(method, origin, preflight, messages) ==
  /\ cors.st = "ready"
  /\ cors' = [cors EXCEPT
       !.st = IF origin # PyNone
              THEN IF method = "OPTIONS" /\ preflight
                   THEN "preflight" ELSE "simple"
              ELSE "direct",
       !.origin = origin,
       !.inner = IF origin # PyNone /\ method = "OPTIONS" /\ preflight
                 THEN <<>> ELSE messages]
  /\ UNCHANGED outside_cors

\* The wrapped application of a request without Origin header calls the
\* server's send.
inner_send ==
  /\ cors.st = "direct" /\ cors.pc < Len(cors.inner)
  /\ cors' = [cors EXCEPT !.pc = @ + 1,
                          !.sent = Append(@, cors.inner[cors.pc + 1])]
  /\ UNCHANGED outside_cors

\* CORSMiddleware.send without its first two lines: only the message with
\* the headers is passed on.
WithCorsHeaders(message) ==
  [message EXCEPT
     !.has_headers = TRUE,
     !.headers =
       Update(IF ~InSeq("*", cors.allow_origins)
                 /\ InSeq(cors.origin, cors.allow_origins)
              THEN SetItem(@, "access-control-allow-origin", cors.origin)
              ELSE @,
              cors.simple_headers)]

\* CORSMiddleware.send: the calls of the server's send it makes for one
\* message of the wrapped application.
CorsSend(message) ==
  (IF message.type # "http.response.start" THEN <<message>> ELSE <<>>)
  \o <<WithCorsHeaders(message)>>

\* The wrapped application of simple_response calls its send.
cors_send ==
  /\ cors.st = "simple" /\ cors.pc < Len(cors.inner)
  /\ cors' = [cors EXCEPT !.pc = @ + 1,
                          !.sent = @ \o CorsSend(cors.inner[cors.pc + 1])]
  /\ UNCHANGED outside_cors

\* The wrapped application returns.
inner_return ==
  /\ cors.st \in {"direct", "simple"} /\ cors.pc = Len(cors.inner)
  /\ cors' = [cors EXCEPT !.st = "done"]
  /\ UNCHANGED outside_cors

CorsNext ==
  \/ \E ao \in AllowOrigins, cred \in BOOLEAN : cors_init(ao, cred)
  \/ \E method \in Methods, origin \in Origins \cup {PyNone},
        preflight \in BOOLEAN, messages \in AppMessages :
       /\ Len(messages) <= MaxAppMessages
       /\ cors_call(method, origin, preflight, messages)
  \/ inner_send
  \/ cors_send
  \/ inner_return

CorsSpec == CorsInit /\ [][CorsNext]_vars

\* C39: for a request with an Origin header every message of the wrapped
\* application reaches the server's send exactly once, in the order sent,
\* and only the http.response.start message is given CORS headers: the
\* others are passed on as they were sent.
C39_ForwardedOnceInOrder ==
  cors.st \in {"simple", "done"} /\ cors.origin # PyNone =>
    /\ Len(cors.sent) = cors.pc
    /\ \A i \in 1..Len(cors.sent) :
         /\ cors.sent[i].type = cors.inner[i].type
         /\ cors.sent[i].body = cors.inner[i].body
         /\ cors.inner[i].type # "http.response.start" =>
              cors.sent[i] = cors.inner[i]

\* ---------------------------------------------------------------------
\* starlette/database/postgres.py: one PostgresSession shared by tasks
\* that call acquire_connection and release_connection in pairs (the
\* queries of fetchall, fetchone, execute, executemany and the start and
\* commit or rollback of a PostgresTransaction).  Each await of the pool is
\* a point where the other tasks run.
\* ---------------------------------------------------------------------
PostgresInit ==
  /\ app \in {AppSingle}
  /\ ProtocolInit
  /\ DefaultLimits
  /\ NoLifespan
  /\ NoServer

outside_session ==
  <<app, transport, wire, read_paused, write_paused, buffer_size,
    active_request, pipeline_queue, total_requests, use_chunked_encoding,
    should_keep_alive, parser, feeding, headers, upgrade, channels, task,
    high_water_limit, low_water_limit, max_pipelined_requests, request,
    received, fed, lifespan_vars, server_vars, websocket, idle_time, cors>>

\* acquire_connection up to its await: the holder is counted, and the
\* pool is asked for a connection when the session has none.
acquire_connection(t) ==
  /\ session.task[t].pc = "idle" /\ session.task[t].calls < MaxCalls
  /\ session' = [session EXCEPT
       !.connection_holders = @ + 1,
       !.task[t].pc = IF session.conn = None THEN "acquiring" ELSE "holding",
       !.task[t].conn = session.conn]
  /\ UNCHANGED outside_session

\* pool.acquire() returns connection c: it is stored and returned.
acquire_return(t, c) ==
  /\ session.task[t].pc = "acquiring" /\ c \in session.free
  /\ session' = [session EXCEPT
       !.free = @ \ {c},
       !.taken[c] = @ + 1,
       !.conn = c,
       !.task[t].pc = "holding",
       !.task[t].conn = c]
  /\ UNCHANGED outside_session

\* release_connection up to its await: the holder is discounted, and the
\* last one calls pool.release with the connection of the session.
release_connection(t) ==
  /\ session.task[t].pc = "holding"
  /\ session' = [session EXCEPT
       !.connection_holders = @ - 1,
       !.task[t].pc = IF session.connection_holders - 1 = 0
                      THEN "releasing" ELSE "idle",
       !.task[t].conn = IF session.connection_holders - 1 = 0
                        THEN session.conn ELSE None,
       !.task[t].calls = IF session.connection_holders - 1 = 0
                         THEN @ ELSE @ + 1]
  /\ UNCHANGED outside_session

\* pool.release(conn) returns and the session forgets its connection;
\* pool.release(None) raises.
release_return(t) ==
  /\ session.task[t].pc = "releasing"
  /\ LET c == session.task[t].conn IN
     session' = [session EXCEPT
       !.free = IF c = None THEN @ ELSE @ \cup {c},
       !.released = IF c = None THEN @ ELSE [@ EXCEPT ![c] = @ + 1],
       !.conn = IF c = None THEN @ ELSE None,
       !.task[t].pc = "idle",
       !.task[t].conn = None,
       !.task[t].calls = @ + 1]
  /\ UNCHANGED outside_session

PostgresNext ==
  \/ \E t \in Callers : acquire_connection(t)
  \/ \E t \in Callers, c \in PoolConnections : acquire_return(t, c)
  \/ \E t \in Callers : release_connection(t)
  \/ \E t \in Callers : release_return(t)

PostgresSpec == PostgresInit /\ [][PostgresNext]_vars

Outstanding == {t \in Callers : session.task[t].pc \in {"acquiring", "holding"}}
HoldersCountOutstanding ==
  session.connection_holders = Cardinality(Outstanding)
AtMostOneHeld == Cardinality(PoolConnections \ session.free) <= 1
ReleasedOnce ==
  /\ \A c \in PoolConnections :
       session.taken[c] - session.released[c] =
         IF c \in session.free THEN 0 ELSE 1
  /\ (\A t \in Callers : session.task[t].pc = "idle") =>
       session.free = PoolConnections
HandedUnreleased ==
  \A t \in Callers :
    session.task[t].pc = "holding" =>
      session.task[t].conn \in PoolConnections \ session.free

\* C40: a session holds at most one connection of its pool; for every
\* interleaving of acquire_connection and release_connection pairs the
\* holder count is the number of outstanding acquires, every connection
\* taken from the pool goes back exactly once, by the time no holder is
\* left, and no caller holds a connection that went back to the pool.
C40_OneConnectionPerSession ==
  /\ AtMostOneHeld
  /\ HoldersCountOutstanding
  /\ ReleasedOnce
  /\ HandedUnreleased

====
